---- MODULE Spec2Model ----
(***************************************************************************)
(* Chatbot backend: storage adapter (app/services/database.py), chat       *)
(* service (app/services/chat.py), gap analysis                            *)
(* (app/services/gap_analysis.py), startup (main.py) and the chat, health  *)
(* and gap-analysis routes (app/routes), over a document store.            *)
(*                                                                         *)
(* Spec runs the handlers one at a time; GapSpec runs the gap analysis on  *)
(* given stores; ConcurrentSpec interleaves connect() calls at their       *)
(* awaits.                                                                 *)
(*                                                                         *)
(* Every handler is a pure operator from the process state (a record, see  *)
(* World) and the outcomes of its awaited calls to the new process state   *)
(* and what the handler returned or raised; the actions apply them.        *)
(***************************************************************************)
EXTENDS Naturals, Integers, Sequences, FiniteSets, TLC

\* ------------------------------------------------------------ bounds
\* exchange documents the store holds at most
MaxDocs == 2
\* the clock runs over 1..MaxTime
MaxTime == 2
\* clients the adapter constructs at most
MaxClients == 2
\* the limit parameter of the read routes runs over 1..MaxLimit
MaxLimit == 2
\* connect() calls in flight at the same time at most
MaxCallers == 3
\* exchanges of the longer and of the shorter conversation the gap analysis is given
MaxLong == 4
MaxShort == 1
\* exchanges stored when the last POST /chat request with its validation arrives
MaxStored == 1

\* Python's None, for a handle, a collection or a timestamp that is absent
None == 0

\* ------------------------------------------------------------ data
\* texts are sequences of characters
UserTexts == { <<"h", "i">>, <<"w", "h", "y", "?">> }
ResponseTexts == { <<>>, <<"o", "k">> }
\* conversation ids a request may carry, and the ones generate_conversation_id draws
GivenIds == { "c1" }
GeneratedIds == { "conv_0a" }
ConversationIds == GivenIds \cup GeneratedIds
Limits == 1..MaxLimit
\* Error texts are sequences of characters where a handler searches them, and named
\* otherwise.
\* what the providers' API calls raise (their texts are the providers' own): a quota
\* error, a rate-limit error naming its delay, and another error
ApiErrors ==
    { << "4", "2", "9" >>,
      << "r", "e", "t", "r", "y", " ", "i", "n", " ", "5", "s" >>,
      << "t", "i", "m", "e", "o", "u", "t" >> }
\* outcomes of one awaited API call of a provider
AiOutcomes ==
    { [ok |-> TRUE, text |-> t] : t \in ResponseTexts }
        \cup { [ok |-> FALSE, error |-> e] : e \in ApiErrors }

\* the text of the driver's error for a failed probe
ConnectionFailure ==
    << "N", "o", " ", "s", "e", "r", "v", "e", "r", "s", " ", "f", "o", "u", "n", "d",
       " ", "y", "e", "t" >>

\* the text _store_message raises when its reconnect failed, before the driver's text
DatabaseConnectionFailed ==
    << "D", "a", "t", "a", "b", "a", "s", "e", " ", "c", "o", "n", "n", "e", "c", "t",
       "i", "o", "n", " ", "f", "a", "i", "l", "e", "d", ":", " " >>

\* the text of the driver's error for a failed insert
InsertFailure ==
    << "c", "o", "n", "n", "e", "c", "t", "i", "o", "n", " ", "c", "l", "o", "s", "e",
       "d" >>

\* "_API_KEY not found in environment variables", after the provider's name in capitals
KeyNotFound ==
    << "_", "A", "P", "I", "_", "K", "E", "Y", " ", "n", "o", "t", " ", "f", "o", "u",
       "n", "d", " ", "i", "n", " ", "e", "n", "v", "i", "r", "o", "n", "m", "e", "n",
       "t", " ", "v", "a", "r", "i", "a", "b", "l", "e", "s" >>

VARIABLES
    client,                    \* DatabaseService.client: None or a client id
    database,                  \* DatabaseService.database: None or the id of its client
    made,                      \* clients constructed so far; the next client's id is made + 1
    conversations_collection,  \* ChatService.conversations_collection: None or its client's id
    store,                     \* the conversations collection on the server, in insertion order
    _db_service,               \* database.py global: has the DatabaseService been constructed
    _chat_service,             \* chat.py global: "none", or the provider of the ChatService
    _gemini_service,           \* gemini.py global: "none", "uninit" or "init"
    _openai_service,           \* openai_service.py global: "none", "uninit" or "init"
    AI_PROVIDER,               \* settings.AI_PROVIDER
    calls,                     \* the connect() coroutines of the concurrent callers: where
                               \* each stands (pc), the client it constructed (own) and
                               \* the handle it returned (ret)
    last                       \* the operation whose answer is on its way to the caller: its
                               \* arguments, the outcomes of its awaited calls (env), the state
                               \* before it (pre) and what it returned or raised (res)

vars == << client, database, made, conversations_collection, store, _db_service,
           _chat_service, _gemini_service, _openai_service, AI_PROVIDER, calls, last >>

\* the process state the handlers work on; now is what get_utc_now returns to the
\* handler at work (see At)
World ==
    [ client |-> client, database |-> database, made |-> made,
      coll |-> conversations_collection, store |-> store,
      db_service |-> _db_service, chat_service |-> _chat_service,
      gemini |-> _gemini_service, openai |-> _openai_service,
      provider |-> AI_PROVIDER, now |-> None ]

\* ------------------------------------------------------------ helpers
Min(a, b) == IF a <= b THEN a ELSE b

SeqMin(s) == CHOOSE x \in { s[i] : i \in DOMAIN s } : \A j \in DOMAIN s : x <= s[j]

SeqMax(s) == CHOOSE x \in { s[i] : i \in DOMAIN s } : \A j \in DOMAIN s : x >= s[j]

\* all orders (sequences without repetition) of the elements of the set S
Orders(S) ==
    { p \in [1..Cardinality(S) -> S] : \A i, j \in DOMAIN p : i # j => p[i] # p[j] }

\* the first n elements of s
Take(s, n) == SubSeq(s, 1, Min(n, Len(s)))

\* str.lower(), letter by letter
Uppercase == << "A", "B", "C", "D", "E", "F", "G", "H", "I", "J", "K", "L", "M",
                "N", "O", "P", "Q", "R", "S", "T", "U", "V", "W", "X", "Y", "Z" >>

Lowercase == << "a", "b", "c", "d", "e", "f", "g", "h", "i", "j", "k", "l", "m",
                "n", "o", "p", "q", "r", "s", "t", "u", "v", "w", "x", "y", "z" >>

\* the lowercase letter of every uppercase letter
ToLower == [ c \in { Uppercase[k] : k \in DOMAIN Uppercase } |->
               Lowercase[CHOOSE k \in DOMAIN Uppercase : Uppercase[k] = c] ]

lower(text) ==
    [ i \in DOMAIN text |-> IF text[i] \in DOMAIN ToLower THEN ToLower[text[i]] ELSE text[i] ]

\* "keyword in text"
Contains(text, keyword) ==
    \E i \in 1..(Len(text) - Len(keyword) + 1) :
       \A k \in DOMAIN keyword : text[i + k - 1] = keyword[k]

\* ------------------------------------------------------------ the document store
\* the positions of the documents matching {"conversation_id": cid}
Matching(docs, cid) == { i \in DOMAIN docs : docs[i].conversation_id = cid }

\* cursor.sort("timestamp", 1): the server returns the documents in some order that is
\* non-decreasing in timestamp; documents with equal timestamps come in any order
RECURSIVE SortedByTimestamp(_, _)
SortedByTimestamp(docs, idx) ==
    IF idx = { }
    THEN { << >> }
    ELSE UNION { { << i >> \o p : p \in SortedByTimestamp(docs, idx \ { i }) } :
                   i \in { i \in idx : \A j \in idx : docs[i].timestamp <= docs[j].timestamp } }

\* delete_one in place of delete_many: only the first matching document goes
delete_first(docs, cid) ==
    LET m == Matching(docs, cid)
    IN IF m = { }
       THEN docs
       ELSE LET k == CHOOSE i \in m : \A j \in m : i <= j
            IN SubSeq(docs, 1, k - 1) \o SubSeq(docs, k + 1, Len(docs))

\* delete_many with the empty filter
delete_many_unfiltered(docs, cid) == << >>

\* collection.delete_many({"conversation_id": cid})
delete_many(docs, cid) == SelectSeq(docs, LAMBDA d : d.conversation_id # cid)

\* ------------------------------------------------------------ DatabaseService
\* the value v handed to the rest K of a handler
Let(v, K(_)) == K(v)

\* what a call that made no probe and no client returns: the cached handle
Cached(w) == [ w |-> w, ok |-> TRUE, ret |-> w.database, probes |-> 0, clients |-> 0 ]

\* connect without the early return on a cached handle
connect_always(w, pingOk) ==
    IF pingOk
    THEN [ w |-> [w EXCEPT !.client = w.made + 1, !.made = w.made + 1,
                           !.database = w.made + 1],
           ok |-> TRUE, ret |-> w.made + 1, probes |-> 1, clients |-> 1 ]
    ELSE [ w |-> [w EXCEPT !.client = w.made + 1, !.made = w.made + 1],
           ok |-> FALSE, error |-> ConnectionFailure, probes |-> 1, clients |-> 1 ]

\* connect(): pingOk is the outcome of the awaited admin.command('ping'); the new
\* client is assigned to self.client before the probe, the handle only after it
connect(w, pingOk) ==
    IF w.database # None
    THEN Cached(w)
    ELSE IF pingOk
         THEN [ w |-> [w EXCEPT !.client = w.made + 1, !.made = w.made + 1,
                                !.database = w.made + 1],
                ok |-> TRUE, ret |-> w.made + 1, probes |-> 1, clients |-> 1 ]
         ELSE [ w |-> [w EXCEPT !.client = w.made + 1, !.made = w.made + 1],
                ok |-> FALSE, error |-> ConnectionFailure, probes |-> 1, clients |-> 1 ]

\* disconnect()
disconnect(w) ==
    IF w.client # None
    THEN [w EXCEPT !.client = None, !.database = None]
    ELSE w

\* get_database()
get_database(w) == w.database

\* health_check answering by the probe alone, without looking at the handle
health_check_probing(w, pingOk) ==
    [ w |-> w, ok |-> TRUE, value |-> pingOk, probes |-> 1 ]

\* health_check(): pingOk is the outcome of the awaited database.command('ping');
\* every exception is answered with False
health_check(w, pingOk) ==
    IF w.database = None
    THEN [ w |-> w, ok |-> TRUE, value |-> FALSE, probes |-> 0 ]
    ELSE [ w |-> w, ok |-> TRUE, value |-> pingOk, probes |-> 1 ]

\* get_collection(name): the collection handle of the current database handle
get_collection(w) ==
    IF w.database = None
    THEN [ ok |-> FALSE, error |-> "Database not connected" ]
    ELSE [ ok |-> TRUE, ret |-> w.database ]

\* get_database_service connecting whenever no handle is cached
get_database_service_connecting(w, pingOk) ==
    connect([w EXCEPT !.db_service = TRUE], pingOk)

\* get_database_service(): the global is assigned before connect() is awaited
get_database_service(w, pingOk) ==
    IF ~w.db_service
    THEN connect([w EXCEPT !.db_service = TRUE], pingOk)
    ELSE Cached(w)

\* ------------------------------------------------------------ ChatService
\* "if db is None: await self.db_service.connect()"
ConnectIfNeeded(w, pingOk) ==
    IF get_database(w) = None THEN connect(w, pingOk) ELSE Cached(w)

\* _get_collection(): the collection handle is cached on first use
_get_collection(w, pingOk) ==
    IF w.coll # None
    THEN [ w |-> w, ok |-> TRUE, ret |-> w.coll, probes |-> 0, clients |-> 0 ]
    ELSE Let(ConnectIfNeeded(w, pingOk), LAMBDA c :
           IF ~c.ok
           THEN c
           ELSE Let(get_collection(c.w), LAMBDA g :
                  IF ~g.ok
                  THEN [ w |-> c.w, ok |-> FALSE, error |-> g.error,
                         probes |-> c.probes, clients |-> c.clients ]
                  ELSE [ w |-> [c.w EXCEPT !.coll = g.ret], ok |-> TRUE, ret |-> g.ret,
                         probes |-> c.probes, clients |-> c.clients ]))

\* the "ensure database is connected" prologue of the storage methods, then _get_collection()
EnsureCollection(w, pingOk) ==
    Let(ConnectIfNeeded(w, pingOk), LAMBDA c :
      IF ~c.ok
      THEN c
      ELSE Let(_get_collection(c.w, pingOk), LAMBDA g :
             [g EXCEPT !.probes = c.probes + g.probes, !.clients = c.clients + g.clients]))

\* message_doc with the two texts exchanged
message_doc_swapped(conversation_id, user_message, assistant_message, t) ==
    [ conversation_id |-> conversation_id,
      user_message |-> assistant_message,
      assistant_message |-> user_message,
      timestamp |-> t,
      created_at |-> t,
      message_length |-> Len(user_message) + Len(assistant_message) ]

\* the document _store_message builds
message_doc(conversation_id, user_message, assistant_message, t) ==
    [ conversation_id |-> conversation_id,
      user_message |-> user_message,
      assistant_message |-> assistant_message,
      timestamp |-> t,
      created_at |-> t,
      message_length |-> Len(user_message) + Len(assistant_message) ]

\* _store_message(): insOk is the outcome of the awaited insert_one.
\* calls counts the awaited storage calls (probes and collection operations)
_store_message(w, conversation_id, user_message, assistant_message, pingOk, insOk) ==
    Let(EnsureCollection(w, pingOk), LAMBDA e :
      IF ~e.ok
      THEN [ w |-> e.w, ok |-> FALSE, error |-> DatabaseConnectionFailed \o ConnectionFailure,
             calls |-> e.probes, clients |-> e.clients ]
      ELSE IF ~insOk
           THEN [ w |-> e.w, ok |-> FALSE, error |-> InsertFailure,
                  calls |-> e.probes + 1, clients |-> e.clients ]
           ELSE [ w |-> [e.w EXCEPT !.store =
                           Append(@, message_doc(conversation_id, user_message,
                                                 assistant_message, e.w.now))],
                  ok |-> TRUE, calls |-> e.probes + 1, clients |-> e.clients ])

\* the provider attached to the ChatService
ai_service(w) == IF w.chat_service = "gemini" THEN w.gemini ELSE w.openai

\* the attached provider after its initialize() succeeded
Initialized(w) ==
    IF w.chat_service = "gemini" THEN [w EXCEPT !.gemini = "init"] ELSE [w EXCEPT !.openai = "init"]

\* the text a provider's initialize() raises when its API key is not set
ApiKeyNotFound(provider) ==
    (IF provider = "gemini"
     THEN << "G", "E", "M", "I", "N", "I" >>
     ELSE << "O", "P", "E", "N", "A", "I" >>) \o KeyNotFound

\* the texts the providers' generate_response raises
GeminiQuotaExceeded ==
    << "A", "P", "I", " ", "q", "u", "o", "t", "a", " ", "e", "x", "c", "e", "e", "d",
       "e", "d", ".", " ", "Y", "o", "u", "r", " ", "f", "r", "e", "e", " ", "t", "i",
       "e", "r", " ", "l", "i", "m", "i", "t", " ", "h", "a", "s", " ", "b", "e", "e",
       "n", " ", "r", "e", "a", "c", "h", "e", "d", ".", " ", "P", "l", "e", "a", "s",
       "e", " ", "c", "h", "e", "c", "k", " ", "y", "o", "u", "r", " ", "u", "s", "a",
       "g", "e", " ", "a", "t", " ", "h", "t", "t", "p", "s", ":", "/", "/", "a", "i",
       ".", "d", "e", "v", "/", "u", "s", "a", "g", "e", " ", "o", "r", " ", "w", "a",
       "i", "t", " ", "a", " ", "f", "e", "w", " ", "m", "i", "n", "u", "t", "e", "s",
       " ", "b", "e", "f", "o", "r", "e", " ", "t", "r", "y", "i", "n", "g", " ", "a",
       "g", "a", "i", "n", "." >>

OpenAIQuotaExceeded ==
    << "A", "P", "I", " ", "q", "u", "o", "t", "a", " ", "e", "x", "c", "e", "e", "d",
       "e", "d", ".", " ", "Y", "o", "u", "r", " ", "O", "p", "e", "n", "A", "I", " ",
       "A", "P", "I", " ", "q", "u", "o", "t", "a", " ", "h", "a", "s", " ", "b", "e",
       "e", "n", " ", "r", "e", "a", "c", "h", "e", "d", ".", " ", "P", "l", "e", "a",
       "s", "e", " ", "c", "h", "e", "c", "k", " ", "y", "o", "u", "r", " ", "u", "s",
       "a", "g", "e", " ", "a", "t", " ", "h", "t", "t", "p", "s", ":", "/", "/", "p",
       "l", "a", "t", "f", "o", "r", "m", ".", "o", "p", "e", "n", "a", "i", ".", "c",
       "o", "m", "/", "u", "s", "a", "g", "e", " ", "o", "r", " ", "w", "a", "i", "t",
       " ", "a", " ", "f", "e", "w", " ", "m", "i", "n", "u", "t", "e", "s", " ", "b",
       "e", "f", "o", "r", "e", " ", "t", "r", "y", "i", "n", "g", " ", "a", "g", "a",
       "i", "n", "." >>

RateLimitReached ==
    << "R", "a", "t", "e", " ", "l", "i", "m", "i", "t", " ", "r", "e", "a", "c", "h",
       "e", "d", ".", " ", "P", "l", "e", "a", "s", "e", " ", "w", "a", "i", "t", " ",
       "a", " ", "m", "o", "m", "e", "n", "t", " ", "a", "n", "d", " ", "t", "r", "y",
       " ", "a", "g", "a", "i", "n", "." >>

RateLimitWait(wait_time) ==
    << "R", "a", "t", "e", " ", "l", "i", "m", "i", "t", " ", "r", "e", "a", "c", "h",
       "e", "d", ".", " ", "P", "l", "e", "a", "s", "e", " ", "w", "a", "i", "t", " " >>
        \o wait_time \o
    << " ", "s", "e", "c", "o", "n", "d", "s", " ", "b", "e", "f", "o", "r", "e", " ",
       "t", "r", "y", "i", "n", "g", " ", "a", "g", "a", "i", "n", "." >>

InvalidApiKey ==
    << "I", "n", "v", "a", "l", "i", "d", " ", "A", "P", "I", " ", "k", "e", "y", ".",
       " ", "P", "l", "e", "a", "s", "e", " ", "c", "h", "e", "c", "k", " ", "y", "o",
       "u", "r", " ", "O", "p", "e", "n", "A", "I", " ", "A", "P", "I", " ", "k", "e",
       "y", "." >>

ErrorGenerating(error_str) ==
    << "E", "r", "r", "o", "r", " ", "g", "e", "n", "e", "r", "a", "t", "i", "n", "g",
       " ", "r", "e", "s", "p", "o", "n", "s", "e", ":", " " >> \o error_str

\* \d
IsDigit(c) == c \in { "0", "1", "2", "3", "4", "5", "6", "7", "8", "9" }

\* the length of the longest run of digits of text that starts at position i
DigitRun(text, i) ==
    CHOOSE n \in 0..(Len(text) + 1 - Min(i, Len(text) + 1)) :
       /\ \A k \in i..(i + n - 1) : IsDigit(text[k])
       /\ (i + n > Len(text) \/ ~IsDigit(text[i + n]))

\* group 1 of r'retry in (\d+\.?\d*)s' matched at position i of text: digits, at most
\* one point, digits, and then an "s"; the empty text when there is no match
WaitTimeAt(text, i) ==
    IF i + 8 > Len(text)
          \/ SubSeq(text, i, i + 8) # << "r", "e", "t", "r", "y", " ", "i", "n", " " >>
    THEN << >>
    ELSE Let(DigitRun(text, i + 9), LAMBDA whole :
           IF whole = 0
           THEN << >>
           ELSE Let(IF i + 9 + whole <= Len(text) /\ text[i + 9 + whole] = "."
                    THEN whole + 1 + DigitRun(text, i + 9 + whole + 1)
                    ELSE whole, LAMBDA n :
                  IF i + 9 + n <= Len(text) /\ text[i + 9 + n] = "s"
                  THEN SubSeq(text, i + 9, i + 9 + n - 1)
                  ELSE << >>))

\* re.search(r'retry in (\d+\.?\d*)s', error_str): group 1 of the leftmost match,
\* the empty text when there is none
retry_match(error_str) ==
    Let({ i \in DOMAIN error_str : WaitTimeAt(error_str, i) # << >> }, LAMBDA at :
      IF at = { }
      THEN << >>
      ELSE WaitTimeAt(error_str, CHOOSE i \in at : \A j \in at : i <= j))

\* the except block of GeminiService.generate_response: what it raises for the API
\* error error_str
gemini_raises(error_str) ==
    IF \/ Contains(error_str, << "4", "2", "9" >>)
       \/ Contains(lower(error_str), << "q", "u", "o", "t", "a" >>)
       \/ Contains(error_str, << "R", "e", "s", "o", "u", "r", "c", "e",
                                 "E", "x", "h", "a", "u", "s", "t", "e", "d" >>)
    THEN GeminiQuotaExceeded
    ELSE IF \/ Contains(lower(error_str), << "r", "a", "t", "e", " ", "l", "i", "m", "i", "t" >>)
            \/ Contains(lower(error_str), << "r", "e", "t", "r", "y" >>)
         THEN IF retry_match(error_str) # << >>
              THEN RateLimitWait(retry_match(error_str))
              ELSE RateLimitReached
         ELSE ErrorGenerating(error_str)

\* the except block of OpenAIService.generate_response
openai_raises(error_str) ==
    IF \/ Contains(error_str, << "4", "2", "9" >>)
       \/ Contains(lower(error_str), << "q", "u", "o", "t", "a" >>)
       \/ Contains(lower(error_str), << "r", "a", "t", "e", " ", "l", "i", "m", "i", "t" >>)
    THEN OpenAIQuotaExceeded
    ELSE IF \/ Contains(error_str, << "4", "0", "1" >>)
            \/ Contains(lower(error_str), << "i", "n", "v", "a", "l", "i", "d" >>)
         THEN InvalidApiKey
         ELSE ErrorGenerating(error_str)

\* what the attached provider raises for the API error error_str
Raised(w, error_str) ==
    IF w.chat_service = "gemini" THEN gemini_raises(error_str) ELSE openai_raises(error_str)

\* generate_response() of either provider: an uninitialized provider first runs
\* initialize() (initOk), outside its try block; then the API call ends as ai says,
\* and its error is raised as the except block words it
generate_response(w, initOk, ai) ==
    IF ai_service(w) # "init" /\ ~initOk
    THEN [ w |-> w, ok |-> FALSE, error |-> ApiKeyNotFound(w.chat_service) ]
    ELSE IF ai.ok
         THEN [ w |-> Initialized(w), ok |-> TRUE, text |-> ai.text ]
         ELSE [ w |-> Initialized(w), ok |-> FALSE, error |-> Raised(w, ai.error) ]

\* "if not conversation_id: conversation_id = generate_conversation_id()"
IdOrGenerated(conversation_id, generated) ==
    IF conversation_id = "" THEN generated ELSE conversation_id

\* what send_message returns
Sent(w, text, cid, t, s) ==
    [ w |-> w, ok |-> TRUE,
      value |-> [ response |-> text, conversation_id |-> cid, timestamp |-> t ],
      stored |-> s.ok, calls |-> s.calls, clients |-> s.clients ]

\* send_message without the try block around _store_message: a storage failure
\* reaches the caller
send_message_raising(w, message, conversation_id, generated, initOk, ai, pingOk, insOk) ==
    Let(generate_response(w, initOk, ai), LAMBDA g :
      IF ~g.ok
      THEN [ w |-> g.w, ok |-> FALSE, error |-> g.error,
             stored |-> FALSE, calls |-> 0, clients |-> 0 ]
      ELSE Let(_store_message(g.w, IdOrGenerated(conversation_id, generated), message,
                              g.text, pingOk, insOk), LAMBDA s :
             IF ~s.ok
             THEN [ w |-> s.w, ok |-> FALSE, error |-> s.error,
                    stored |-> FALSE, calls |-> s.calls, clients |-> s.clients ]
             ELSE Sent(s.w, g.text, IdOrGenerated(conversation_id, generated), w.now, s)))

\* send_message storing the user message before the gateway is called
send_message_storing_first(w, message, conversation_id, generated, initOk, ai, pingOk, insOk) ==
    Let(_store_message(w, IdOrGenerated(conversation_id, generated), message, << >>,
                       pingOk, insOk), LAMBDA s :
      Let(generate_response(s.w, initOk, ai), LAMBDA g :
        IF ~g.ok
        THEN [ w |-> g.w, ok |-> FALSE, error |-> g.error,
               stored |-> s.ok, calls |-> s.calls, clients |-> s.clients ]
        ELSE Sent(g.w, g.text, IdOrGenerated(conversation_id, generated), w.now, s)))

\* send_message(): conversation_id is "" (absent) or an id; generated is what
\* generate_conversation_id returns when it is called
send_message(w, message, conversation_id, generated, initOk, ai, pingOk, insOk) ==
    Let(generate_response(w, initOk, ai), LAMBDA g :
      IF ~g.ok
      THEN [ w |-> g.w, ok |-> FALSE, error |-> g.error,
             stored |-> FALSE, calls |-> 0, clients |-> 0 ]
      ELSE Let(_store_message(g.w, IdOrGenerated(conversation_id, generated), message,
                              g.text, pingOk, insOk), LAMBDA s :
             Sent(s.w, g.text, IdOrGenerated(conversation_id, generated), w.now, s)))

\* ChatMessage(role, content, timestamp): the model validates content (min_length=1)
\* and role on construction
ChatMessageValid(role, content) == role \in { "user", "assistant" } /\ Len(content) >= 1

ChatMessage(role, content, timestamp) ==
    [ role |-> role, content |-> content, timestamp |-> timestamp ]

\* the two messages get_conversation_history builds from one document
Expand(doc) ==
    << ChatMessage("user", doc.user_message, doc.timestamp),
       ChatMessage("assistant", doc.assistant_message, doc.timestamp) >>

RECURSIVE ExpandAll(_)
ExpandAll(docs) ==
    IF docs = << >> THEN << >> ELSE Expand(Head(docs)) \o ExpandAll(Tail(docs))

\* the ConversationHistory built from the documents the cursor yielded
ConversationHistory(conversation_id, docs, messages) ==
    [ conversation_id |-> conversation_id,
      messages |-> messages,
      created_at |-> IF docs = << >> THEN None ELSE docs[1].created_at,
      updated_at |-> IF docs = << >> THEN None ELSE docs[Len(docs)].timestamp,
      message_count |-> Len(messages) ]

\* the loop over the cursor: a ChatMessage that does not validate ends it with an error
Scan(w, conversation_id, docs, messages) ==
    IF \E i \in DOMAIN messages : ~ChatMessageValid(messages[i].role, messages[i].content)
    THEN [ w |-> w, ok |-> FALSE, error |-> "validation error" ]
    ELSE [ w |-> w, ok |-> TRUE, value |-> ConversationHistory(conversation_id, docs, messages) ]

\* get_conversation_history(): findOk is the outcome of the awaited find;
\* order is the order the cursor yields the matching documents in,
\* one of SortedByTimestamp(store, Matching(store, conversation_id))
get_conversation_history(w, conversation_id, limit, pingOk, findOk, order) ==
    Let(EnsureCollection(w, pingOk), LAMBDA e :
      IF ~e.ok
      THEN [ w |-> e.w, ok |-> FALSE, error |-> e.error ]
      ELSE IF ~findOk
           THEN [ w |-> e.w, ok |-> FALSE, error |-> "find failed" ]
           ELSE Let(Take([ i \in DOMAIN order |-> w.store[order[i]] ], limit), LAMBDA docs :
                  Scan(e.w, conversation_id, docs, ExpandAll(docs))))

\* the positions in order of the documents of conversation cid
PositionsOf(docs, order, cid) ==
    { i \in DOMAIN order : docs[order[i]].conversation_id = cid }

\* the $group stage counting messages (two per exchange) instead of exchanges
Group_counting_messages(docs, order, cid) ==
    Let(PositionsOf(docs, order, cid), LAMBDA at :
      [ conversation_id |-> cid,
        first_message |-> docs[order[CHOOSE i \in at : \A j \in at : i <= j]].user_message,
        last_message |-> docs[order[CHOOSE i \in at : \A j \in at : i >= j]].user_message,
        message_count |-> 2 * Cardinality(at),
        created_at |-> CHOOSE t \in { docs[order[i]].created_at : i \in at } :
                           \A j \in at : t <= docs[order[j]].created_at,
        updated_at |-> CHOOSE t \in { docs[order[i]].timestamp : i \in at } :
                           \A j \in at : t >= docs[order[j]].timestamp ])

\* the $group stage over the documents in the order the first $sort stage left them:
\* $first, $last, $sum 1, $min created_at, $max timestamp
Group(docs, order, cid) ==
    Let(PositionsOf(docs, order, cid), LAMBDA at :
      [ conversation_id |-> cid,
        first_message |-> docs[order[CHOOSE i \in at : \A j \in at : i <= j]].user_message,
        last_message |-> docs[order[CHOOSE i \in at : \A j \in at : i >= j]].user_message,
        message_count |-> Cardinality(at),
        created_at |-> CHOOSE t \in { docs[order[i]].created_at : i \in at } :
                           \A j \in at : t <= docs[order[j]].created_at,
        updated_at |-> CHOOSE t \in { docs[order[i]].timestamp : i \in at } :
                           \A j \in at : t >= docs[order[j]].timestamp ])

\* the second $sort stage ({"updated_at": -1}): the orders of the groups it may leave
SortedByUpdatedAt(groups) ==
    { p \in Orders(groups) : \A i, j \in DOMAIN p : i < j => p[i].updated_at >= p[j].updated_at }

\* the aggregation pipeline: $sort, $group, $sort, $limit
Pipelines(docs, limit) ==
    { Take(p, limit) :
        p \in UNION { SortedByUpdatedAt({ Group(docs, order, cid) :
                                            cid \in { docs[i].conversation_id : i \in DOMAIN docs } }) :
                        order \in SortedByTimestamp(docs, DOMAIN docs) } }

\* get_conversation_summaries letting a failed reconnect reach the caller, as the
\* other storage methods do
get_conversation_summaries_raising(w, limit, pingOk, countOk, aggOk, result) ==
    Let(EnsureCollection(w, pingOk), LAMBDA e :
      IF ~e.ok
      THEN [ w |-> e.w, ok |-> FALSE, error |-> e.error ]
      ELSE IF ~countOk \/ Len(w.store) = 0 \/ ~aggOk
           THEN [ w |-> e.w, ok |-> TRUE, value |-> << >> ]
           ELSE [ w |-> e.w, ok |-> TRUE, value |-> result ])

\* get_conversation_summaries(): countOk and aggOk are the outcomes of the awaited
\* count_documents and aggregate; result is what the pipeline yields, one of
\* Pipelines(store, limit). Stored conversation ids are never empty, so no group is
\* skipped. Every failure is caught and answered with the empty list
get_conversation_summaries(w, limit, pingOk, countOk, aggOk, result) ==
    Let(ConnectIfNeeded(w, pingOk), LAMBDA c :
      IF ~c.ok
      THEN [ w |-> c.w, ok |-> TRUE, value |-> << >> ]
      ELSE Let(_get_collection(c.w, pingOk), LAMBDA g :
             IF ~g.ok \/ ~countOk
             THEN [ w |-> g.w, ok |-> TRUE, value |-> << >> ]
             ELSE IF Len(w.store) = 0
                  THEN [ w |-> g.w, ok |-> TRUE, value |-> << >> ]
                  ELSE IF ~aggOk
                       THEN [ w |-> g.w, ok |-> TRUE, value |-> << >> ]
                       ELSE [ w |-> g.w, ok |-> TRUE, value |-> result ]))

\* delete_conversation swallowing storage errors, as the listing does
delete_conversation_swallowing(w, conversation_id, pingOk, delOk) ==
    Let(EnsureCollection(w, pingOk), LAMBDA e :
      IF ~e.ok \/ ~delOk
      THEN [ w |-> e.w, ok |-> TRUE, value |-> FALSE ]
      ELSE [ w |-> [e.w EXCEPT !.store = delete_many(@, conversation_id)],
             ok |-> TRUE,
             value |-> Cardinality(Matching(w.store, conversation_id)) > 0 ])

\* delete_conversation(): delOk is the outcome of the awaited delete_many
delete_conversation(w, conversation_id, pingOk, delOk) ==
    Let(EnsureCollection(w, pingOk), LAMBDA e :
      IF ~e.ok
      THEN [ w |-> e.w, ok |-> FALSE, error |-> e.error ]
      ELSE IF ~delOk
           THEN [ w |-> e.w, ok |-> FALSE, error |-> "delete failed" ]
           ELSE [ w |-> [e.w EXCEPT !.store = delete_many(@, conversation_id)],
                  ok |-> TRUE,
                  value |-> Cardinality(Matching(w.store, conversation_id)) > 0 ])

\* ------------------------------------------------------------ the singletons
\* get_gemini_service(): the global is assigned before initialize() runs
get_gemini_service(w, gemOk) ==
    IF w.gemini = "none"
    THEN [ w |-> [w EXCEPT !.gemini = IF gemOk THEN "init" ELSE "uninit"], ok |-> gemOk ]
    ELSE [ w |-> w, ok |-> TRUE ]

\* get_openai_service(): the global is assigned before initialize() runs
get_openai_service(w, oaOk) ==
    IF w.openai = "none"
    THEN [ w |-> [w EXCEPT !.openai = IF oaOk THEN "init" ELSE "uninit"], ok |-> oaOk ]
    ELSE [ w |-> w, ok |-> TRUE ]

\* the outcome r of the last provider getter tried, for the provider named
Provider(r, name) ==
    [ w |-> r.w, ok |-> r.ok, ret |-> name, error |-> ApiKeyNotFound(name) ]

\* the provider choice of get_chat_service(): the configured provider, else the other one
ChooseProvider(w, gemOk, oaOk) ==
    IF w.provider = "openai"
    THEN Let(get_openai_service(w, oaOk), LAMBDA o :
           IF o.ok
           THEN Provider(o, "openai")
           ELSE Provider(get_gemini_service(o.w, gemOk), "gemini"))
    ELSE Let(get_gemini_service(w, gemOk), LAMBDA g :
           IF g.ok
           THEN Provider(g, "gemini")
           ELSE Provider(get_openai_service(g.w, oaOk), "openai"))

\* get_chat_service()
get_chat_service(w, pingOk, gemOk, oaOk) ==
    IF w.chat_service # "none"
    THEN [ w |-> w, ok |-> TRUE ]
    ELSE Let(get_database_service(w, pingOk), LAMBDA d :
           IF ~d.ok
           THEN [ w |-> d.w, ok |-> FALSE, error |-> d.error ]
           ELSE Let(ChooseProvider(d.w, gemOk, oaOk), LAMBDA a :
                  IF ~a.ok
                  THEN [ w |-> a.w, ok |-> FALSE, error |-> a.error ]
                  ELSE [ w |-> [a.w EXCEPT !.chat_service = a.ret], ok |-> TRUE ]))

\* ------------------------------------------------------------ validation
\* the limits of a message's length (ChatRequest.message, validate_message)
MinMessage == 1
MaxMessage == 5000
\* the longest conversation id validate_conversation_id accepts
MaxIdLength == 100

\* the Python str of a sequence of characters
RECURSIVE Str(_)
Str(text) == IF text = << >> THEN "" ELSE Head(text) \o Str(Tail(text))

\* the characters str.strip() removes
Whitespace == { " ", "\t", "\n", "\r" }

\* str.strip()
strip(text) ==
    Let(Len(text), LAMBDA length :
      IF \A i \in 1..length : text[i] \in Whitespace
      THEN << >>
      ELSE SubSeq(text,
                  CHOOSE i \in 1..length :
                     text[i] \notin Whitespace /\ \A j \in 1..(i - 1) : text[j] \in Whitespace,
                  CHOOSE i \in 1..length :
                     text[i] \notin Whitespace
                        /\ \A j \in (i + 1)..length : text[j] \in Whitespace))

\* the ChatRequest model: message has min_length=1 and max_length=5000; the
\* conversation id is any text and may be absent. An absent conversation id and an
\* empty one are both the empty text: the route and send_message test it with "not"
ChatRequest(message, conversation_id) ==
    [ valid |-> Len(message) >= MinMessage /\ Len(message) <= MaxMessage,
      message |-> message, conversation_id |-> conversation_id ]

\* validate_message(message)
validate_message(message) ==
    IF message = << >>
    THEN [ valid |-> FALSE, error |-> "Message cannot be empty" ]
    ELSE Let(Len(strip(message)), LAMBDA length :
           IF length < MinMessage
           THEN [ valid |-> FALSE, error |-> "Message must be at least 1 characters" ]
           ELSE IF length > MaxMessage
                THEN [ valid |-> FALSE, error |-> "Message must not exceed 5000 characters" ]
                ELSE [ valid |-> TRUE ])

\* the characters the class [a-zA-Z0-9_-] matches
ClassChars ==
    { Uppercase[k] : k \in DOMAIN Uppercase } \cup { Lowercase[k] : k \in DOMAIN Lowercase }
        \cup { "0", "1", "2", "3", "4", "5", "6", "7", "8", "9" } \cup { "_", "-" }

\* re.match(r'^[a-zA-Z0-9_-]+$', conversation_id): one or more characters of the class
\* up to '$', which matches at the end of the text and also before a newline that
\* ends the text
match(conversation_id) ==
    \E n \in { Len(conversation_id) - 1, Len(conversation_id) } :
       /\ n >= 1
       /\ \A i \in 1..n : conversation_id[i] \in ClassChars
       /\ (n = Len(conversation_id) \/ conversation_id[Len(conversation_id)] = "\n")

\* validate_conversation_id(conversation_id)
validate_conversation_id(conversation_id) ==
    IF conversation_id = << >>
    THEN [ valid |-> FALSE, error |-> "Conversation ID cannot be empty" ]
    ELSE IF ~match(conversation_id)
         THEN [ valid |-> FALSE, error |-> "Conversation ID contains invalid characters" ]
         ELSE IF Len(conversation_id) > MaxIdLength
              THEN [ valid |-> FALSE, error |-> "Conversation ID is too long" ]
              ELSE [ valid |-> TRUE ]

\* generate_conversation_id(): "conv_" and the first 16 of the 32 hexadecimal digits
\* hex of a new UUID
generate_conversation_id(hex) == << "c", "o", "n", "v", "_" >> \o SubSeq(hex, 1, 16)

\* ------------------------------------------------------------ the chat routes
\* the test for "quota" and "rate limit" made on the text as it is
QuotaShaped_case_sensitive(error) ==
    \/ Contains(error, << "q", "u", "o", "t", "a" >>)
    \/ Contains(error, << "r", "a", "t", "e", " ", "l", "i", "m", "i", "t" >>)
    \/ Contains(error, << "4", "2", "9" >>)

\* the error texts the POST /chat handler answers 429 for: those containing
\* "quota", "rate limit" (case-insensitive) or "429"
QuotaShaped(error) ==
    \/ Contains(lower(error), << "q", "u", "o", "t", "a" >>)
    \/ Contains(lower(error), << "r", "a", "t", "e", " ", "l", "i", "m", "i", "t" >>)
    \/ Contains(error, << "4", "2", "9" >>)

\* POST /chat, after the request's validation
post_chat(w, message, conversation_id, generated, pingOk, gemOk, oaOk, initOk, ai, insOk) ==
    Let(get_chat_service(w, pingOk, gemOk, oaOk), LAMBDA c :
      IF ~c.ok
      THEN [ w |-> c.w, status |-> IF QuotaShaped(c.error) THEN 429 ELSE 500,
             called |-> FALSE, error |-> c.error ]
      ELSE Let(send_message(c.w, message, conversation_id, generated,
                            initOk, ai, pingOk, insOk), LAMBDA r :
             IF ~r.ok
             THEN [ w |-> r.w, status |-> IF QuotaShaped(r.error) THEN 429 ELSE 500,
                    called |-> TRUE, service |-> r ]
             ELSE [ w |-> r.w, status |-> 200, called |-> TRUE, service |-> r,
                    body |-> [ response |-> r.value.response,
                               conversation_id |-> r.value.conversation_id ] ]))

\* what a route answers a request it rejects before its try block
Rejected(w, status, detail) ==
    [ w |-> w, status |-> status, called |-> FALSE, detail |-> detail ]

\* POST /chat: the request is parsed into the ChatRequest model (a request that does
\* not validate is answered 422 by validation_exception_handler), then the route
\* validates the message and the conversation id, if there is one
send_message_route(w, request, generated, pingOk, gemOk, oaOk, initOk, ai, insOk) ==
    IF ~request.valid
    THEN Rejected(w, 422, "Validation error")
    ELSE Let(validate_message(request.message), LAMBDA m :
           IF ~m.valid
           THEN Rejected(w, 400, m.error)
           ELSE Let(IF request.conversation_id # << >>
                    THEN validate_conversation_id(request.conversation_id)
                    ELSE [ valid |-> TRUE ], LAMBDA c :
                  IF ~c.valid
                  THEN Rejected(w, 400, c.error)
                  ELSE post_chat(w, request.message, Str(request.conversation_id),
                                 generated, pingOk, gemOk, oaOk, initOk, ai, insOk)))

\* GET /chat/history/{conversation_id}
get_history(w, conversation_id, limit, pingOk, gemOk, oaOk, findOk, order) ==
    Let(get_chat_service(w, pingOk, gemOk, oaOk), LAMBDA c :
      IF ~c.ok
      THEN [ w |-> c.w, status |-> 500, called |-> FALSE, error |-> c.error ]
      ELSE Let(get_conversation_history(c.w, conversation_id, limit,
                                        pingOk, findOk, order), LAMBDA r :
             IF ~r.ok
             THEN [ w |-> r.w, status |-> 500, called |-> TRUE, service |-> r ]
             ELSE [ w |-> r.w, status |-> 200, called |-> TRUE, service |-> r,
                    body |-> r.value ]))

\* GET /chat/conversations
list_conversations(w, limit, pingOk, gemOk, oaOk, countOk, aggOk, result) ==
    Let(get_chat_service(w, pingOk, gemOk, oaOk), LAMBDA c :
      IF ~c.ok
      THEN [ w |-> c.w, status |-> 200, called |-> FALSE, body |-> << >> ]
      ELSE Let(get_conversation_summaries(c.w, limit, pingOk, countOk, aggOk, result),
               LAMBDA r :
                 IF ~r.ok
                 THEN [ w |-> r.w, status |-> 200, called |-> TRUE, service |-> r,
                        body |-> << >> ]
                 ELSE [ w |-> r.w, status |-> 200, called |-> TRUE, service |-> r,
                        body |-> r.value ]))

\* DELETE /chat/conversations/{conversation_id}
delete_conversation_route(w, conversation_id, pingOk, gemOk, oaOk, delOk) ==
    Let(get_chat_service(w, pingOk, gemOk, oaOk), LAMBDA c :
      IF ~c.ok
      THEN [ w |-> c.w, status |-> 500, called |-> FALSE, error |-> c.error ]
      ELSE Let(delete_conversation(c.w, conversation_id, pingOk, delOk), LAMBDA r :
             IF ~r.ok
             THEN [ w |-> r.w, status |-> 500, called |-> TRUE, service |-> r ]
             ELSE [ w |-> r.w, status |-> IF r.value THEN 200 ELSE 404,
                    called |-> TRUE, service |-> r ]))

\* ------------------------------------------------------------ GapAnalysisService
\* text.count(ch)
count(text, ch) == Cardinality({ i \in DOMAIN text : text[i] = ch })

detail_keywords ==
    { << "h", "o", "w" >>, << "w", "h", "y" >>, << "w", "h", "a", "t" >>,
      << "w", "h", "e", "n" >>, << "w", "h", "e", "r", "e" >>,
      << "e", "x", "a", "m", "p", "l", "e" >>,
      << "s", "p", "e", "c", "i", "f", "i", "c" >> }

action_keywords ==
    { << "n", "e", "x", "t" >>, << "s", "t", "e", "p" >>,
      << "a", "c", "t", "i", "o", "n" >>, << "d", "o" >>,
      << "s", "h", "o", "u", "l", "d" >>,
      << "r", "e", "c", "o", "m", "m", "e", "n", "d" >> }

\* sum(f[i] for i in DOMAIN f)
RECURSIVE Sum(_)
Sum(f) == IF f = << >> THEN 0 ELSE Head(f) + Sum(Tail(f))

user_messages(messages) == SelectSeq(messages, LAMBDA m : m.role = "user")

ai_messages(messages) == SelectSeq(messages, LAMBDA m : m.role = "assistant")

short_responses(ais) == SelectSeq(ais, LAMBDA m : Len(m.content) < 50)

has_details(users) ==
    \E i \in DOMAIN users : \E keyword \in detail_keywords :
       Contains(lower(users[i].content), keyword)

has_actions(users) ==
    \E i \in DOMAIN users : \E keyword \in action_keywords :
       Contains(lower(users[i].content), keyword)

question_marks(users) == Sum([ i \in DOMAIN users |-> count(users[i].content, "?") ])

\* the triggers of the six rules, on the user messages and the assistant messages
MissingContext(users) == Len(users) < 2

\* the follow-up rule looking for two exchanges instead of one
NoFollowup_two_exchanges(users, ais) == Len(users) = 2 /\ Len(ais) = 2

NoFollowup(users, ais) == Len(users) = 1 /\ Len(ais) = 1

\* the short-response rule triggering at one half already
ShortResponses_from_half(ais) == 2 * Len(short_responses(ais)) >= Len(ais)

\* len(short_responses) > len(ai_messages) * 0.5
ShortResponses(ais) == 2 * Len(short_responses(ais)) > Len(ais)

\* the missing-details rule without its length condition
MissingDetails_any_length(users) == ~has_details(users)

\* not has_details and len(user_messages) > 2
MissingDetails(users) == ~has_details(users) /\ Len(users) > 2

NoActionItems(users) == ~has_actions(users) /\ Len(users) > 3

UnansweredQuestions(users, ais) == question_marks(users) > Len(ais)

\* gaps.append({...}) under its rule's condition
When(trigger, gap) == IF trigger THEN << gap >> ELSE << >>

\* completeness_score -= penalty under its rule's condition
Minus(trigger, penalty) == IF trigger THEN penalty ELSE 0

\* the gap list, in rule order
Gaps(users, ais) ==
    When(MissingContext(users),
         [ type |-> "missing_context", severity |-> "medium",
           description |-> "Conversation lacks sufficient context",
           suggestion |-> "Provide more background information or ask follow-up questions" ])
    \o When(NoFollowup(users, ais),
         [ type |-> "no_followup", severity |-> "low",
           description |-> "Single exchange without follow-up",
           suggestion |-> "Consider asking follow-up questions to deepen the conversation" ])
    \o When(ShortResponses(ais),
         [ type |-> "short_responses", severity |-> "low",
           description |-> "Many responses are quite brief",
           suggestion |-> "Ask for more detailed explanations or examples" ])
    \o When(MissingDetails(users),
         [ type |-> "missing_details", severity |-> "medium",
           description |-> "Conversation may lack specific details",
           suggestion |-> "Ask specific questions using 'how', 'why', 'what', or request examples" ])
    \o When(NoActionItems(users),
         [ type |-> "no_action_items", severity |-> "low",
           description |-> "No clear action items or next steps identified",
           suggestion |-> "Ask about next steps or actionable recommendations" ])
    \o When(UnansweredQuestions(users, ais),
         [ type |-> "unanswered_questions", severity |-> "high",
           description |-> "More questions asked than answered",
           suggestion |-> "Review responses to ensure all questions are addressed" ])

\* completeness_score after the six rules, before the floor
Score(users, ais) ==
    100 - Minus(MissingContext(users), 20)
        - Minus(NoFollowup(users, ais), 10)
        - Minus(ShortResponses(ais), 15)
        - Minus(MissingDetails(users), 15)
        - Minus(NoActionItems(users), 10)
        - Minus(UnansweredQuestions(users, ais), 25)

\* max(0, completeness_score)
Floor(score) == IF score > 0 THEN score ELSE 0

\* the suggestions without the positive one
Suggestions_per_gap(gaps) == [ i \in DOMAIN gaps |-> gaps[i].suggestion ]

\* the suggestions: one per gap, or the positive one when there is no gap
Suggestions(gaps) ==
    IF gaps = << >>
    THEN << "Conversation appears complete and well-structured" >>
    ELSE [ i \in DOMAIN gaps |-> gaps[i].suggestion ]

\* len([g for g in gaps if g["severity"] == severity])
WithSeverity(gaps, severity) == Len(SelectSeq(gaps, LAMBDA g : g.severity = severity))

\* the metrics; average_message_length is the quotient of length_sum by total_messages
Metrics(messages, users, ais, score) ==
    [ total_messages |-> Len(messages),
      user_messages |-> Len(users),
      ai_messages |-> Len(ais),
      length_sum |-> Sum([ i \in DOMAIN messages |-> Len(messages[i].content) ]),
      questions_asked |-> question_marks(users),
      completeness_score |-> Floor(score) ]

\* what analyze_conversation returns for the gaps and the metrics it found
Report(conversation_id, gaps, metrics) ==
    [ conversation_id |-> conversation_id,
      status |-> "analyzed",
      gaps |-> gaps,
      suggestions |-> Suggestions(gaps),
      completeness_score |-> metrics.completeness_score,
      metrics |-> metrics,
      gap_count |-> Len(gaps),
      severity_breakdown |-> [ high |-> WithSeverity(gaps, "high"),
                               medium |-> WithSeverity(gaps, "medium"),
                               low |-> WithSeverity(gaps, "low") ] ]

\* the six rules on the user messages and the assistant messages of the history
Rules(conversation_id, messages, users, ais) ==
    Report(conversation_id, Gaps(users, ais),
           Metrics(messages, users, ais, Score(users, ais)))

\* the analysis of a history that has messages
Analyzed(conversation_id, messages) ==
    Rules(conversation_id, messages, user_messages(messages), ai_messages(messages))

\* the analysis of a history without messages
Empty(conversation_id) ==
    [ conversation_id |-> conversation_id,
      status |-> "empty",
      gaps |-> << >>,
      suggestions |-> << "Start a conversation to analyze gaps" >>,
      completeness_score |-> 0 ]

\* the analysis when reading the history raised
Failed(conversation_id, error) ==
    [ conversation_id |-> conversation_id,
      status |-> "error",
      error |-> error,
      gaps |-> << >>,
      suggestions |-> << >>,
      completeness_score |-> 0 ]

\* the limit analyze_conversation reads the history with: get_conversation_history's default
HistoryLimit == 50

\* analyze_conversation deleting a conversation whose history it cannot read
analyze_conversation_pruning(w, conversation_id, pingOk, findOk, order) ==
    Let(get_conversation_history(w, conversation_id, HistoryLimit, pingOk, findOk, order),
        LAMBDA h :
          IF ~h.ok
          THEN [ w |-> [h.w EXCEPT !.store = delete_many(@, conversation_id)],
                 ok |-> TRUE, value |-> Failed(conversation_id, h.error) ]
          ELSE IF h.value.messages = << >>
               THEN [ w |-> h.w, ok |-> TRUE, value |-> Empty(conversation_id) ]
               ELSE [ w |-> h.w, ok |-> TRUE,
                      value |-> Analyzed(conversation_id, h.value.messages) ])

\* analyze_conversation(): every exception is answered with the "error" analysis
analyze_conversation(w, conversation_id, pingOk, findOk, order) ==
    Let(get_conversation_history(w, conversation_id, HistoryLimit, pingOk, findOk, order),
        LAMBDA h :
          IF ~h.ok
          THEN [ w |-> h.w, ok |-> TRUE, value |-> Failed(conversation_id, h.error) ]
          ELSE IF h.value.messages = << >>
               THEN [ w |-> h.w, ok |-> TRUE, value |-> Empty(conversation_id) ]
               ELSE [ w |-> h.w, ok |-> TRUE,
                      value |-> Analyzed(conversation_id, h.value.messages) ])

\* the limit analyze_all_conversations lists the summaries with
SummaryLimit == 100

\* the loop "for summary in summaries": findOks[i] is the outcome of the find awaited
\* for the i-th summary, orders[cid] the order its cursor yields the documents in
RECURSIVE AnalyzeEach(_, _, _, _, _)
AnalyzeEach(w, summaries, pingOk, findOks, orders) ==
    IF summaries = << >>
    THEN [ w |-> w, analyses |-> << >> ]
    ELSE Let(analyze_conversation(w, Head(summaries).conversation_id, pingOk,
                                  Head(findOks), orders[Head(summaries).conversation_id]),
             LAMBDA a :
               Let(AnalyzeEach(a.w, Tail(summaries), pingOk, Tail(findOks), orders),
                   LAMBDA rest :
                     [ w |-> rest.w, analyses |-> << a.value >> \o rest.analyses ]))

\* the gap types of all analyses, in the order the tally loop meets them
RECURSIVE GapTypes(_)
GapTypes(analyses) ==
    IF analyses = << >>
    THEN << >>
    ELSE [ i \in DOMAIN Head(analyses).gaps |-> Head(analyses).gaps[i].type ]
         \o GapTypes(Tail(analyses))

\* a dict gets a new key at its end
AppendNew(keys, key) ==
    IF \E i \in DOMAIN keys : keys[i] = key THEN keys ELSE Append(keys, key)

\* the keys of gap_types, in insertion order
RECURSIVE Keys(_)
Keys(types) ==
    IF types = << >>
    THEN << >>
    ELSE AppendNew(Keys(SubSeq(types, 1, Len(types) - 1)), types[Len(types)])

\* gap_types.items()
Items(types, keys) ==
    [ i \in DOMAIN keys |-> [ type |-> keys[i], frequency |-> count(types, keys[i]) ] ]

\* sorted(items, key=frequency, reverse=True): the sort is stable, items of equal
\* frequency keep their order
SortedByFrequency(items) ==
    [ k \in DOMAIN items |->
        items[CHOOSE i \in DOMAIN items :
                k = 1 + Cardinality({ j \in DOMAIN items :
                                        \/ items[j].frequency > items[i].frequency
                                        \/ /\ items[j].frequency = items[i].frequency
                                           /\ j < i })] ]

\* common_gaps without the sort: the first five gap types met
common_gaps_unsorted(analyses) ==
    Take(Items(GapTypes(analyses), Keys(GapTypes(analyses))), 5)

\* the five most frequent gap types
common_gaps(analyses) ==
    Take(SortedByFrequency(Items(GapTypes(analyses), Keys(GapTypes(analyses)))), 5)

\* what analyze_all_conversations returns for summaries that are not empty;
\* average_completeness_score is the quotient of score_sum by analyzed_conversations,
\* rounded to two decimals
Overall(summaries, analyses) ==
    [ status |-> "analyzed",
      total_conversations |-> Len(summaries),
      analyzed_conversations |-> Len(analyses),
      total_gaps_found |-> Sum([ i \in DOMAIN analyses |-> Len(analyses[i].gaps) ]),
      score_sum |-> Sum([ i \in DOMAIN analyses |-> analyses[i].completeness_score ]),
      common_gaps |-> common_gaps(analyses),
      conversation_analyses |-> analyses ]

NoConversations ==
    [ status |-> "no_conversations", total_conversations |-> 0, overall_insights |-> << >> ]

\* analyze_all_conversations(): get_conversation_summaries never raises, and
\* analyze_conversation answers its own exceptions
analyze_all_conversations(w, pingOk, countOk, aggOk, result, findOks, orders) ==
    Let(get_conversation_summaries(w, SummaryLimit, pingOk, countOk, aggOk, result),
        LAMBDA s :
          IF s.value = << >>
          THEN [ w |-> s.w, ok |-> TRUE, value |-> NoConversations ]
          ELSE Let(AnalyzeEach(s.w, s.value, pingOk, findOks, orders), LAMBDA e :
                 [ w |-> e.w, ok |-> TRUE, value |-> Overall(s.value, e.analyses) ]))

\* GET /gap-analysis/conversation/{conversation_id}
analyze_conversation_route(w, conversation_id, pingOk, gemOk, oaOk, findOk, order) ==
    Let(get_chat_service(w, pingOk, gemOk, oaOk), LAMBDA c :
      IF ~c.ok
      THEN [ w |-> c.w, status |-> 500, called |-> FALSE, error |-> c.error ]
      ELSE Let(analyze_conversation(c.w, conversation_id, pingOk, findOk, order), LAMBDA r :
             [ w |-> r.w, status |-> 200, called |-> TRUE, service |-> r,
               body |-> r.value ]))

\* GET /gap-analysis/all
analyze_all_route(w, pingOk, gemOk, oaOk, countOk, aggOk, result, findOks, orders) ==
    Let(get_chat_service(w, pingOk, gemOk, oaOk), LAMBDA c :
      IF ~c.ok
      THEN [ w |-> c.w, status |-> 500, called |-> FALSE, error |-> c.error ]
      ELSE Let(analyze_all_conversations(c.w, pingOk, countOk, aggOk, result,
                                         findOks, orders), LAMBDA r :
             [ w |-> r.w, status |-> 200, called |-> TRUE, service |-> r,
               body |-> r.value ]))

\* ------------------------------------------------------------ startup and health
\* the provider getter the lifespan calls: the configured provider's, without fallback
ConfiguredProvider(w, gemOk, oaOk) ==
    IF w.provider = "openai" THEN get_openai_service(w, oaOk) ELSE get_gemini_service(w, gemOk)

\* what the startup half of the lifespan leaves: both of its steps are logged
StartedWith(d, a) ==
    [ w |-> a.w, ok |-> TRUE, connected |-> d.ok, ai |-> a.ok, clients |-> d.clients ]

\* lifespan(), up to its yield: get_database_service(), then the configured provider's
\* getter; an exception of either is logged and startup goes on
lifespan(w, pingOk, gemOk, oaOk) ==
    Let(get_database_service(w, pingOk), LAMBDA d :
      StartedWith(d, ConfiguredProvider(d.w, gemOk, oaOk)))

\* GET /health: an exception of get_database_service() is not caught by the handler
health_route(w, pingOk, hpingOk) ==
    Let(get_database_service(w, pingOk), LAMBDA d :
      IF ~d.ok
      THEN [ w |-> d.w, status |-> 500, called |-> FALSE, error |-> d.error ]
      ELSE Let(health_check(d.w, hpingOk), LAMBDA h :
             [ w |-> h.w, status |-> IF h.value THEN 200 ELSE 503, called |-> TRUE,
               body |-> IF h.value THEN "healthy" ELSE "Database connection failed" ]))

\* ------------------------------------------------------------ the state machine
\* what an operation leaves in last: its result without the process state
Strip(r) == [ k \in DOMAIN r \ { "w" } |-> r[k] ]

Outcome(r) ==
    IF "service" \in DOMAIN r
    THEN [ Strip(r) EXCEPT !.service = Strip(r.service) ]
    ELSE Strip(r)

\* the part of the process state an operation may change, as it was before it
Before(w) ==
    [ store |-> w.store, client |-> w.client, database |-> w.database,
      made |-> w.made, coll |-> w.coll, chat_service |-> w.chat_service,
      db_service |-> w.db_service, gemini |-> w.gemini, openai |-> w.openai ]

\* the process state after an operation
Becomes(w) ==
    /\ client' = w.client
    /\ database' = w.database
    /\ made' = w.made
    /\ conversations_collection' = w.coll
    /\ store' = w.store
    /\ _db_service' = w.db_service
    /\ _chat_service' = w.chat_service
    /\ _gemini_service' = w.gemini
    /\ _openai_service' = w.openai
    /\ AI_PROVIDER' = w.provider
    /\ UNCHANGED calls

\* the newest timestamp the store holds: the clock does not run backwards, so a
\* handler reads a time that is not before it
Newest(docs) == IF docs = << >> THEN 1 ELSE SeqMax([ i \in DOMAIN docs |-> docs[i].timestamp ])

\* the times get_utc_now may return to the next handler
Clock == Newest(store)..MaxTime

\* the process state as a handler that reads the clock at t finds it
At(t) == [World EXCEPT !.now = t]

\* the outcomes of an awaited call that is made only when needed holds: both, or
\* success alone when the handler cannot reach the call
Outcomes(needed) == IF needed THEN BOOLEAN ELSE { TRUE }

\* the probe is awaited only while no database handle is cached
PingOutcomes == Outcomes(database = None)

\* a provider's initialize() runs from its getter only while its global is unset and no
\* ChatService is cached
GeminiOutcomes == Outcomes(_chat_service = "none" /\ _gemini_service = "none")

OpenAIOutcomes == Outcomes(_chat_service = "none" /\ _openai_service = "none")

\* generate_response runs initialize() only on a provider that is not initialized
InitOutcomes == Outcomes(_gemini_service = "uninit" \/ _openai_service = "uninit")

\* the model's bounds on what an operation may leave: no more clients than
\* MaxClients, and no store grown beyond MaxDocs
Bounded(w) == w.made <= MaxClients /\ (Len(w.store) <= MaxDocs \/ Len(w.store) <= Len(store))

\* the handler's result r becomes the process state, and the operation (its
\* arguments and the outcomes of its awaited calls in entry) the one at hand
Step(r, entry) ==
    /\ Bounded(r.w)
    /\ Becomes(r.w)
    /\ last' = entry @@ [ pre |-> Before(World), res |-> Outcome(r) ]

\* no operation is at work
Idle == [ op |-> "idle" ]

\* the callers of the concurrent connect() calls
Callers == 1..MaxCallers

\* a caller that has not called connect() yet
NotCalled == [ pc |-> "idle", own |-> None, ret |-> None ]

Init ==
    /\ client = None
    /\ database = None
    /\ made = 0
    /\ conversations_collection = None
    /\ store = << >>
    /\ _db_service = FALSE
    /\ _chat_service = "none"
    /\ _gemini_service = "none"
    /\ _openai_service = "none"
    /\ AI_PROVIDER \in { "gemini", "openai" }
    /\ calls = [ p \in Callers |-> NotCalled ]
    /\ last = Idle

GetDatabaseService ==
    /\ last = Idle
    /\ \E pingOk \in PingOutcomes :
          Step(get_database_service(World, pingOk),
               [ op |-> "get_database_service", env |-> [ pingOk |-> pingOk ] ])

Connect ==
    /\ last = Idle
    /\ _db_service
    /\ \E pingOk \in PingOutcomes :
          Step(connect(World, pingOk), [ op |-> "connect", env |-> [ pingOk |-> pingOk ] ])

Disconnect ==
    /\ last = Idle
    /\ _db_service
    /\ Becomes(disconnect(World))
    /\ last' = [ op |-> "disconnect", pre |-> Before(World) ]

PostChat ==
    /\ last = Idle
    /\ \E t \in Clock, message \in UserTexts, conversation_id \in GivenIds \cup { "" },
          generated \in GeneratedIds, pingOk \in PingOutcomes, gemOk \in GeminiOutcomes,
          oaOk \in OpenAIOutcomes, initOk \in InitOutcomes, insOk \in BOOLEAN,
          ai \in AiOutcomes :
          Step(post_chat(At(t), message, conversation_id, generated,
                         pingOk, gemOk, oaOk, initOk, ai, insOk),
               [ op |-> "post_chat", message |-> message,
                 conversation_id |-> conversation_id,
                 env |-> [ t |-> t, generated |-> generated, pingOk |-> pingOk,
                           ai |-> ai, insOk |-> insOk ] ])

GetHistory ==
    /\ last = Idle
    /\ \E conversation_id \in ConversationIds, limit \in Limits,
          pingOk \in PingOutcomes, gemOk \in GeminiOutcomes, oaOk \in OpenAIOutcomes,
          findOk \in BOOLEAN :
          \E order \in SortedByTimestamp(store, Matching(store, conversation_id)) :
             Step(get_history(World, conversation_id, limit,
                              pingOk, gemOk, oaOk, findOk, order),
                  [ op |-> "get_history", conversation_id |-> conversation_id,
                    limit |-> limit,
                    env |-> [ pingOk |-> pingOk, findOk |-> findOk, order |-> order ] ])

ListConversations ==
    /\ last = Idle
    /\ \E limit \in Limits, pingOk \in PingOutcomes, gemOk \in GeminiOutcomes,
          oaOk \in OpenAIOutcomes, countOk, aggOk \in BOOLEAN :
          \E result \in Pipelines(store, limit) :
             Step(list_conversations(World, limit, pingOk, gemOk, oaOk,
                                     countOk, aggOk, result),
                  [ op |-> "list_conversations", limit |-> limit,
                    env |-> [ pingOk |-> pingOk, countOk |-> countOk, aggOk |-> aggOk ] ])

DeleteConversation ==
    /\ last = Idle
    /\ \E conversation_id \in ConversationIds, pingOk \in PingOutcomes,
          gemOk \in GeminiOutcomes, oaOk \in OpenAIOutcomes, delOk \in BOOLEAN :
          Step(delete_conversation_route(World, conversation_id,
                                         pingOk, gemOk, oaOk, delOk),
               [ op |-> "delete_conversation", conversation_id |-> conversation_id,
                 env |-> [ pingOk |-> pingOk, delOk |-> delOk ] ])

\* the process starts: nothing has been constructed yet
Startup ==
    /\ last = Idle
    /\ ~_db_service
    /\ _chat_service = "none"
    /\ _gemini_service = "none"
    /\ _openai_service = "none"
    /\ \E pingOk \in PingOutcomes, gemOk \in GeminiOutcomes, oaOk \in OpenAIOutcomes :
          Step(lifespan(World, pingOk, gemOk, oaOk),
               [ op |-> "lifespan", env |-> [ pingOk |-> pingOk ] ])

Health ==
    /\ last = Idle
    /\ \E pingOk \in Outcomes(~_db_service), hpingOk \in BOOLEAN :
          Step(health_route(World, pingOk, hpingOk),
               [ op |-> "health", env |-> [ pingOk |-> pingOk, hpingOk |-> hpingOk ] ])

\* for every conversation id, an order its cursor may yield its documents in
CursorOrders ==
    { f \in [ConversationIds ->
               UNION { SortedByTimestamp(store, Matching(store, cid)) : cid \in ConversationIds }] :
        \A cid \in ConversationIds : f[cid] \in SortedByTimestamp(store, Matching(store, cid)) }

AnalyzeConversation ==
    /\ last = Idle
    /\ \E conversation_id \in ConversationIds, pingOk \in PingOutcomes,
          gemOk \in GeminiOutcomes, oaOk \in OpenAIOutcomes, findOk \in BOOLEAN :
          \E order \in SortedByTimestamp(store, Matching(store, conversation_id)) :
             Step(analyze_conversation_route(World, conversation_id,
                                             pingOk, gemOk, oaOk, findOk, order),
                  [ op |-> "analyze_conversation", conversation_id |-> conversation_id,
                    env |-> [ pingOk |-> pingOk, findOk |-> findOk ] ])

AnalyzeAll ==
    /\ last = Idle
    /\ \E pingOk \in PingOutcomes, gemOk \in GeminiOutcomes, oaOk \in OpenAIOutcomes,
          countOk \in BOOLEAN, aggOk \in BOOLEAN :
          \E result \in Pipelines(store, SummaryLimit), orders \in CursorOrders :
             \E findOks \in [1..Len(result) -> BOOLEAN] :
                Step(analyze_all_route(World, pingOk, gemOk, oaOk, countOk, aggOk,
                                       result, findOks, orders),
                     [ op |-> "analyze_all",
                       env |-> [ pingOk |-> pingOk, countOk |-> countOk, aggOk |-> aggOk,
                                 findOks |-> findOks ] ])

\* the adapter's accessors, called on the constructed DatabaseService
GetDatabase ==
    /\ last = Idle
    /\ _db_service
    /\ Step([ w |-> World, ok |-> TRUE, value |-> get_database(World) ],
            [ op |-> "get_database" ])

HealthCheck ==
    /\ last = Idle
    /\ _db_service
    /\ \E pingOk \in BOOLEAN :
          Step(health_check(World, pingOk),
               [ op |-> "health_check", env |-> [ pingOk |-> pingOk ] ])

GetCollection ==
    /\ last = Idle
    /\ _db_service
    /\ Step([ w |-> World ] @@ get_collection(World), [ op |-> "get_collection" ])

\* the answer reaches the caller; the handlers run one at a time
Respond ==
    /\ last # Idle
    /\ last' = Idle
    /\ UNCHANGED << client, database, made, conversations_collection, store, _db_service,
                    _chat_service, _gemini_service, _openai_service, AI_PROVIDER, calls >>

Next ==
    \/ GetDatabaseService
    \/ Connect
    \/ Disconnect
    \/ PostChat
    \/ GetHistory
    \/ ListConversations
    \/ DeleteConversation
    \/ GetDatabase
    \/ HealthCheck
    \/ GetCollection
    \/ Startup
    \/ Health
    \/ AnalyzeConversation
    \/ AnalyzeAll
    \/ Respond

Spec == Init /\ [][Next]_vars

\* ------------------------------------------------------------ gap analysis of given stores
\* user texts without a keyword, with a detail keyword and two questions, and with an
\* action keyword
GapUserTexts == { << "h", "i" >>, << "W", "h", "y", "?", "?" >>, << "d", "o" >> }

\* a response of 50 characters: not a short one
LongResponse == [ i \in 1..50 |-> "a" ]

\* a short response and a long one; the shorter conversation may also hold an empty one
GapResponseTexts == { << "o", "k" >>, LongResponse }

\* the exchanges of a conversation of n exchanges, without their timestamps
Exchanges(cid, n, responses) ==
    [ 1..n -> { [ conversation_id |-> cid, user_message |-> u, assistant_message |-> a ] :
                  u \in GapUserTexts, a \in responses } ]

\* the documents _store_message wrote for the exchanges, one per tick of the clock
Stored(exchanges) ==
    [ i \in DOMAIN exchanges |->
        message_doc(exchanges[i].conversation_id, exchanges[i].user_message,
                    exchanges[i].assistant_message, i) ]

\* a longer conversation given by the caller, then a shorter one with a generated id
GapStores ==
    { Stored(long \o short) :
        long \in UNION { Exchanges("c1", n, GapResponseTexts) : n \in 0..MaxLong },
        short \in UNION { Exchanges("conv_0a", n, GapResponseTexts \cup { << >> }) :
                            n \in 0..MaxShort } }

\* a process that has served the requests that left the store: connected, with its
\* ChatService constructed
Serving ==
    /\ client = 1
    /\ database = 1
    /\ made = 1
    /\ conversations_collection = 1
    /\ store \in GapStores
    /\ _db_service = TRUE
    /\ _chat_service = "openai"
    /\ _gemini_service = "none"
    /\ _openai_service = "init"
    /\ AI_PROVIDER = "openai"
    /\ calls = [ p \in Callers |-> NotCalled ]
    /\ last = Idle

GapNext ==
    \/ AnalyzeConversation
    \/ AnalyzeAll
    \/ Respond

GapSpec == Serving /\ [][GapNext]_vars

\* ------------------------------------------------------------ concurrent connect() calls
\* The event loop runs a coroutine until it awaits: connect() runs from its entry to
\* the awaited probe in one step, and from the probe's answer to its return in another.

\* the adapter is constructed and has never connected
ColdStart ==
    /\ client = None
    /\ database = None
    /\ made = 0
    /\ conversations_collection = None
    /\ store = << >>
    /\ _db_service = TRUE
    /\ _chat_service = "none"
    /\ _gemini_service = "none"
    /\ _openai_service = "none"
    /\ AI_PROVIDER \in { "gemini", "openai" }
    /\ calls = [ p \in Callers |-> NotCalled ]
    /\ last = Idle

\* what no step of connect() touches
ConnectFrame ==
    UNCHANGED << conversations_collection, store, _db_service, _chat_service,
                 _gemini_service, _openai_service, AI_PROVIDER, last >>

\* connect() finds the handle cached and returns it
ConnectCached(p) ==
    /\ calls[p].pc = "idle"
    /\ database # None
    /\ calls' = [calls EXCEPT ![p] = [ pc |-> "returned", own |-> None, ret |-> database ]]
    /\ UNCHANGED << client, database, made >>
    /\ ConnectFrame

\* connect() finds no handle: it assigns a new client to self.client and awaits the
\* probe on it
ConnectProbe(p) ==
    /\ calls[p].pc = "idle"
    /\ database = None
    /\ client' = made + 1
    /\ made' = made + 1
    /\ calls' = [calls EXCEPT ![p] = [ pc |-> "probing", own |-> made + 1, ret |-> None ]]
    /\ UNCHANGED database
    /\ ConnectFrame

\* the probe succeeded: "self.database = self.client[...]" reads self.client as it is
\* now, and connect() returns self.database
ConnectReturn(p) ==
    /\ calls[p].pc = "probing"
    /\ database' = client
    /\ calls' = [calls EXCEPT ![p] = [ pc |-> "returned", own |-> @.own, ret |-> client ]]
    /\ UNCHANGED << client, made >>
    /\ ConnectFrame

\* the probe failed: connect() re-raises
ConnectRaise(p) ==
    /\ calls[p].pc = "probing"
    /\ calls' = [calls EXCEPT ![p] = [ pc |-> "raised", own |-> @.own, ret |-> None ]]
    /\ UNCHANGED << client, database, made >>
    /\ ConnectFrame

EnterCached == \E p \in Callers : ConnectCached(p)

EnterProbe == \E p \in Callers : ConnectProbe(p)

ProbeSucceeds == \E p \in Callers : ConnectReturn(p)

ProbeFails == \E p \in Callers : ConnectRaise(p)

ConcurrentNext ==
    \/ EnterCached
    \/ EnterProbe
    \/ ProbeSucceeds
    \/ ProbeFails

ConcurrentSpec == ColdStart /\ [][ConcurrentNext]_vars

\* ------------------------------------------------------------ concurrent _store_message calls
\* On a connected service with its collection cached, _store_message runs from its
\* entry to the awaited insert_one in one step: it reads the clock and builds the
\* document. The insert reaches the server in another step, and the inserts of
\* different calls reach it in any order.

\* a caller that has not called _store_message yet
NotStoring == [ pc |-> "idle", now |-> None ]

\* the process is connected, its ChatService constructed and its collection cached
Appending ==
    /\ client = 1
    /\ database = 1
    /\ made = 1
    /\ conversations_collection = 1
    /\ store = << >>
    /\ _db_service = TRUE
    /\ _chat_service \in { "gemini", "openai" }
    /\ _gemini_service = IF _chat_service = "gemini" THEN "init" ELSE "none"
    /\ _openai_service = IF _chat_service = "openai" THEN "init" ELSE "none"
    /\ AI_PROVIDER = _chat_service
    /\ calls = [ p \in Callers |-> NotStoring ]
    /\ last = Idle

\* what no step of _store_message touches on a connected service
StoreFrame ==
    UNCHANGED << client, database, made, conversations_collection, _db_service,
                 _chat_service, _gemini_service, _openai_service, AI_PROVIDER, last >>

\* the latest reading of the clock so far: the clock does not run backwards
Latest ==
    SeqMax(<< 1 >> \o [ p \in Callers |-> calls[p].now ]
                  \o [ i \in DOMAIN store |-> store[i].timestamp ])

\* _store_message(conversation_id, user_message, assistant_message) finds the handle
\* and the collection cached, reads the clock (now = get_utc_now()), builds
\* message_doc and awaits insert_one
StoreBegin(p, conversation_id, user_message, assistant_message, t) ==
    /\ calls[p].pc = "idle"
    /\ get_database(World) # None
    /\ conversations_collection # None
    /\ calls' = [calls EXCEPT ![p] =
                   [ pc |-> "inserting", now |-> t,
                     doc |-> message_doc(conversation_id, user_message, assistant_message, t) ]]
    /\ UNCHANGED store
    /\ StoreFrame

\* the insert of caller p reaches the server and is acknowledged
InsertDone(p) ==
    /\ calls[p].pc = "inserting"
    /\ store' = Append(store, calls[p].doc)
    /\ calls' = [calls EXCEPT ![p] = [ pc |-> "stored", now |-> @.now ]]
    /\ StoreFrame

\* the insert of caller p fails: _store_message re-raises
InsertRaise(p) ==
    /\ calls[p].pc = "inserting"
    /\ calls' = [calls EXCEPT ![p] = [ pc |-> "raised", now |-> @.now ]]
    /\ UNCHANGED store
    /\ StoreFrame

StoreBegins ==
    \E p \in Callers, conversation_id \in ConversationIds, user_message \in UserTexts,
       t \in Latest..MaxTime :
       StoreBegin(p, conversation_id, user_message, << "o", "k" >>, t)

AppendNext ==
    \/ StoreBegins
    \/ \E p \in Callers : InsertDone(p)
    \/ \E p \in Callers : InsertRaise(p)

AppendSpec == Appending /\ [][AppendNext]_vars

\* ------------------------------------------------------------ concurrent getter calls
\* get_chat_service() and get_database_service() run until they await something that
\* suspends: the getter that finds _db_service None constructs the DatabaseService,
\* assigns the global and is suspended in connect() on the probe; a getter that finds
\* the globals set runs through to its return without suspending.

\* a caller that has called no getter yet: the getter it calls (fn), whether it
\* constructed the DatabaseService (db), the ChatService it constructed (chat) and
\* the one it returned (ret); ChatService instances are numbered as constructed
NotAsked == [ pc |-> "idle", fn |-> "none", db |-> FALSE, chat |-> None, ret |-> None ]

\* nothing is constructed
ColdGetters ==
    /\ client = None
    /\ database = None
    /\ made = 0
    /\ conversations_collection = None
    /\ store = << >>
    /\ _db_service = FALSE
    /\ _chat_service = "none"
    /\ _gemini_service = "none"
    /\ _openai_service = "none"
    /\ AI_PROVIDER \in { "gemini", "openai" }
    /\ calls = [ p \in Callers |-> NotAsked ]
    /\ last = Idle

\* what no step of a getter touches
GetterFrame == UNCHANGED << conversations_collection, store, AI_PROVIDER, last >>

\* the ChatService instances constructed so far
ChatServices == { calls[p].chat : p \in Callers } \ { None }

\* the instance the global _chat_service holds: each construction is assigned to it
CurrentChatService == SeqMax(<< None >> \o [ p \in Callers |-> calls[p].chat ])

\* "_db_service = DatabaseService()" and connect() up to its awaited probe, by caller p
\* for getter fn: at this point no handle is cached
ConstructAndProbe(p, fn) ==
    /\ _db_service' = TRUE
    /\ database = None
    /\ client' = made + 1
    /\ made' = made + 1
    /\ calls' = [calls EXCEPT ![p] = [ @ EXCEPT !.pc = "probing", !.fn = fn, !.db = TRUE ]]
    /\ UNCHANGED << database, _chat_service, _gemini_service, _openai_service >>

\* get_chat_service() from the return of get_database_service() on: a is the outcome
\* of the provider choice; "_chat_service = ChatService(db_service, ai_service)" and
\* the return, or the exception of the provider getters
ConstructChatService(p, a) ==
    /\ _gemini_service' = a.w.gemini
    /\ _openai_service' = a.w.openai
    /\ _chat_service' = IF a.ok THEN a.ret ELSE _chat_service
    /\ calls' = [calls EXCEPT ![p] =
                   IF a.ok
                   THEN [ @ EXCEPT !.pc = "returned", !.fn = "get_chat_service",
                                   !.chat = Cardinality(ChatServices) + 1,
                                   !.ret = Cardinality(ChatServices) + 1 ]
                   ELSE [ @ EXCEPT !.pc = "raised", !.fn = "get_chat_service" ]]

\* get_chat_service() finds _chat_service set and returns it
GetChatCached(p) ==
    /\ calls[p].pc = "idle"
    /\ _chat_service # "none"
    /\ calls' = [calls EXCEPT ![p] = [ @ EXCEPT !.pc = "returned", !.fn = "get_chat_service",
                                                !.ret = CurrentChatService ]]
    /\ UNCHANGED << client, database, made, _db_service, _chat_service, _gemini_service,
                    _openai_service >>
    /\ GetterFrame

\* get_chat_service() finds _chat_service None and _db_service set:
\* get_database_service() returns without suspending, and the call constructs a
\* ChatService
GetChatWarm(p, gemOk, oaOk) ==
    /\ calls[p].pc = "idle"
    /\ _chat_service = "none"
    /\ _db_service
    /\ ConstructChatService(p, ChooseProvider(World, gemOk, oaOk))
    /\ UNCHANGED << client, database, made, _db_service >>
    /\ GetterFrame

\* get_chat_service() finds both globals None
GetChatCold(p) ==
    /\ calls[p].pc = "idle"
    /\ _chat_service = "none"
    /\ ~_db_service
    /\ ConstructAndProbe(p, "get_chat_service")
    /\ GetterFrame

\* the probe of a get_chat_service() call succeeded: connect() assigns the handle,
\* get_database_service() returns, and the call constructs a ChatService
GetChatProbed(p, gemOk, oaOk) ==
    /\ calls[p].pc = "probing"
    /\ calls[p].fn = "get_chat_service"
    /\ database' = client
    /\ ConstructChatService(p, ChooseProvider(World, gemOk, oaOk))
    /\ UNCHANGED << client, made, _db_service >>
    /\ GetterFrame

\* get_database_service() finds _db_service set and returns it
GetDatabaseCached(p) ==
    /\ calls[p].pc = "idle"
    /\ _db_service
    /\ calls' = [calls EXCEPT ![p] = [ @ EXCEPT !.pc = "returned",
                                                !.fn = "get_database_service" ]]
    /\ UNCHANGED << client, database, made, _db_service, _chat_service, _gemini_service,
                    _openai_service >>
    /\ GetterFrame

\* get_database_service() finds _db_service None
GetDatabaseCold(p) ==
    /\ calls[p].pc = "idle"
    /\ ~_db_service
    /\ ConstructAndProbe(p, "get_database_service")
    /\ GetterFrame

\* the probe of a get_database_service() call succeeded
GetDatabaseProbed(p) ==
    /\ calls[p].pc = "probing"
    /\ calls[p].fn = "get_database_service"
    /\ database' = client
    /\ calls' = [calls EXCEPT ![p] = [ @ EXCEPT !.pc = "returned" ]]
    /\ UNCHANGED << client, made, _db_service, _chat_service, _gemini_service,
                    _openai_service >>
    /\ GetterFrame

\* the probe failed: connect() re-raises, and so does the getter
GetterRaise(p) ==
    /\ calls[p].pc = "probing"
    /\ calls' = [calls EXCEPT ![p] = [ @ EXCEPT !.pc = "raised" ]]
    /\ UNCHANGED << client, database, made, _db_service, _chat_service, _gemini_service,
                    _openai_service >>
    /\ GetterFrame

GetterNext ==
    \/ \E p \in Callers : GetChatCached(p)
    \/ \E p \in Callers, gemOk \in BOOLEAN, oaOk \in BOOLEAN : GetChatWarm(p, gemOk, oaOk)
    \/ \E p \in Callers : GetChatCold(p)
    \/ \E p \in Callers, gemOk \in BOOLEAN, oaOk \in BOOLEAN : GetChatProbed(p, gemOk, oaOk)
    \/ \E p \in Callers : GetDatabaseCached(p)
    \/ \E p \in Callers : GetDatabaseCold(p)
    \/ \E p \in Callers : GetDatabaseProbed(p)
    \/ \E p \in Callers : GetterRaise(p)

GetterSpec == ColdGetters /\ [][GetterNext]_vars

\* ------------------------------------------------------------ requests as they arrive
\* a text of n characters
Pad(n) == SubSeq([ i \in 1..n |-> "a" ], 1, n)

\* messages: empty, blank, short, of the greatest length and longer
RawMessages ==
    { << >>, << " " >>, << "h", "i" >>, << " ", "h", "i", "\n" >>,
      Pad(MaxMessage), Pad(MaxMessage + 1) }

\* conversation ids of up to three characters over letters, a digit, the two marks, a
\* blank and a newline, and ids around the greatest length
RawIds ==
    UNION { [1..n -> { "a", "Z", "0", "_", "-", " ", "\n" }] : n \in 0..3 }
        \cup { Pad(MaxIdLength), Pad(MaxIdLength + 1), Pad(MaxIdLength) \o << "\n" >>,
               Pad(MaxIdLength - 1) \o << "\n" >> }
        \cup { << "a", "b", "c", " ", "1", "2", "3" >>,
               << "a", "b", "c", "-", "1", "2", "3", "_", "o", "k" >> }

\* the conversation ids POST /chat requests carry: none, well-formed ones and
\* malformed ones
RouteIds ==
    { << >>, << "c", "1" >>, << "c", " ", "1" >>, << "c", "1", "\n" >>, << "\n" >>,
      Pad(MaxIdLength + 1) }

\* uuid4().hex: 32 hexadecimal digits
UuidHexes ==
    { [ i \in 1..32 |-> IF i <= k THEN a ELSE b ] :
        a \in { "0", "9", "a", "f" }, b \in { "0", "f" }, k \in { 0, 7, 16 } }

\* the one a POST /chat request draws when it carries no conversation id
RouteHexes == { [ i \in 1..32 |-> IF i <= 7 THEN "9" ELSE "f" ] }

\* what the providers' API calls raise, in more words than ApiErrors
RequestApiErrors ==
    ApiErrors \cup
      { << "Q", "u", "o", "t", "a" >>,
        << "R", "e", "s", "o", "u", "r", "c", "e", "E", "x", "h", "a", "u", "s", "t", "e", "d" >>,
        << "R", "A", "T", "E", " ", "L", "I", "M", "I", "T" >>,
        << "R", "e", "t", "r", "y" >>,
        << "r", "e", "t", "r", "y", " ", "i", "n", " ", "1", ".", "5", "s" >>,
        << "r", "e", "t", "r", "y", " ", "i", "n", " ", "7", ".", "x" >>,
        << "4", "0", "1" >>,
        << "I", "n", "v", "a", "l", "i", "d" >> }

RequestOutcomes ==
    { [ok |-> TRUE, text |-> << "o", "k" >>] }
        \cup { [ok |-> FALSE, error |-> e] : e \in RequestApiErrors }

\* a process that is connected and has its ChatService constructed; the attached
\* provider is initialized or not
Accepting ==
    /\ client = 1
    /\ database = 1
    /\ made = 1
    /\ conversations_collection = 1
    /\ store = << >>
    /\ _db_service = TRUE
    /\ _chat_service \in { "gemini", "openai" }
    /\ _gemini_service \in IF _chat_service = "gemini" THEN { "init", "uninit" } ELSE { "none" }
    /\ _openai_service \in IF _chat_service = "openai" THEN { "init", "uninit" } ELSE { "none" }
    /\ AI_PROVIDER = _chat_service
    /\ calls = [ p \in Callers |-> NotCalled ]
    /\ last = Idle

\* POST /chat requests arrive while fewer than MaxStored exchanges are stored
SendMessageRoute ==
    /\ last = Idle
    /\ Len(store) < MaxStored
    /\ \E t \in Clock, message \in RawMessages, conversation_id \in RouteIds,
          hex \in RouteHexes, pingOk \in PingOutcomes, gemOk \in GeminiOutcomes,
          oaOk \in OpenAIOutcomes, initOk \in InitOutcomes, insOk \in BOOLEAN,
          ai \in RequestOutcomes :
          Step(send_message_route(At(t), ChatRequest(message, conversation_id),
                                  Str(generate_conversation_id(hex)),
                                  pingOk, gemOk, oaOk, initOk, ai, insOk),
               [ op |-> "send_message_route", message |-> message,
                 conversation_id |-> conversation_id,
                 env |-> [ t |-> t, generated |-> Str(generate_conversation_id(hex)),
                           pingOk |-> pingOk, initOk |-> initOk, ai |-> ai,
                           insOk |-> insOk ] ])

\* a route validates the conversation id of its request
ValidateConversationId ==
    /\ last = Idle
    /\ \E conversation_id \in RawIds :
          Step([ w |-> World, ok |-> TRUE, value |-> validate_conversation_id(conversation_id) ],
               [ op |-> "validate_conversation_id", conversation_id |-> conversation_id ])

\* send_message generates a conversation id
GenerateConversationId ==
    /\ last = Idle
    /\ \E hex \in UuidHexes :
          Step([ w |-> World, ok |-> TRUE, value |-> generate_conversation_id(hex) ],
               [ op |-> "generate_conversation_id", hex |-> hex ])

RequestNext ==
    \/ SendMessageRoute
    \/ ValidateConversationId
    \/ GenerateConversationId
    \/ Respond

RequestSpec == Accepting /\ [][RequestNext]_vars

\* ------------------------------------------------------------ properties
\* what the operation at hand found and left
Op(name) == last.op = name

\* the operation reached its ChatService method (get_chat_service returned)
Called(name) == Op(name) /\ last.res.called

\* the conversation id the POST /chat at hand works on
RequestId ==
    IF last.conversation_id = "" THEN last.env.generated ELSE last.conversation_id

\* the AI gateway of the POST /chat at hand returned a response: its provider is
\* initialized and the awaited call succeeded
GatewayReturned == Called("post_chat") /\ ai_service(World) = "init" /\ last.env.ai.ok

\* the AI gateway of the POST /chat at hand was called and failed
GatewayFailed == Called("post_chat") /\ ~(ai_service(World) = "init" /\ last.env.ai.ok)

\* the error the failed gateway raised
GatewayError ==
    IF ai_service(World) # "init"
    THEN ApiKeyNotFound(_chat_service)
    ELSE Raised(World, last.env.ai.error)

\* storing the exchange of the POST /chat at hand failed: the reconnect or the insert
StoringFailed ==
    \/ last.pre.database = None /\ ~last.env.pingOk
    \/ ~last.env.insOk

\* C1: whenever the AI gateway returns a response, send_message returns that text with
\* a conversation id (the one given, else a generated one), also when storing the
\* exchange fails; the storage error does not reach the caller and POST /chat answers 200
C1_ResponseSurvivesStorageFailure ==
    GatewayReturned =>
        /\ last.res.service.ok
        /\ last.res.service.value.response = last.env.ai.text
        /\ last.res.service.value.conversation_id = RequestId
        /\ last.res.service.value.conversation_id \in ConversationIds
        /\ last.res.status = 200
        /\ last.res.body.response = last.env.ai.text
        /\ last.res.body.conversation_id = RequestId

\* a POST /chat whose gateway returned and whose storing failed, by a failed reconnect
\* or by a failed insert
C1_Witness ==
    /\ GatewayReturned
    /\ StoringFailed
    /\ store = last.pre.store
    /\ last.res.status = 200

\* the document the POST /chat at hand is to store
ExpectedDoc ==
    [ conversation_id |-> RequestId,
      user_message |-> last.message,
      assistant_message |-> last.env.ai.text,
      timestamp |-> last.env.t,
      created_at |-> last.env.t,
      message_length |-> Len(last.message) + Len(last.env.ai.text) ]

\* every field of a stored document is written
WholeDoc(d) ==
    /\ DOMAIN d = { "conversation_id", "user_message", "assistant_message",
                    "timestamp", "created_at", "message_length" }
    /\ d.conversation_id \in ConversationIds
    /\ d.user_message \in UserTexts
    /\ d.assistant_message \in ResponseTexts
    /\ d.timestamp \in 1..MaxTime
    /\ d.created_at = d.timestamp
    /\ d.message_length = Len(d.user_message) + Len(d.assistant_message)

\* C2 as stated: every send_message call that returns successfully leaves exactly one
\* new exchange document, carrying the conversation id it returned and the message sent
C2_OneDocPerSuccessfulCall ==
    (Called("post_chat") /\ last.res.service.ok) =>
        /\ Len(store) = Len(last.pre.store) + 1
        /\ store[Len(store)].conversation_id = last.res.service.value.conversation_id
        /\ store[Len(store)].user_message = last.message

\* C2 as amended: a send_message call leaves exactly one new exchange document
\* (conversation id returned, message sent, response returned) when its append
\* succeeded and none otherwise, also when it returned successfully after a failed
\* append; no document is ever partially written
C2_OneDocPerStoredCall ==
    /\ \A i \in DOMAIN store : WholeDoc(store[i])
    /\ Op("post_chat") =>
          IF GatewayReturned /\ ~StoringFailed
          THEN /\ store = Append(last.pre.store, ExpectedDoc)
               /\ last.res.service.ok
               /\ last.res.service.value.conversation_id = store[Len(store)].conversation_id
          ELSE store = last.pre.store

\* a POST /chat that stored its exchange after an earlier one
C2_Witness ==
    /\ GatewayReturned
    /\ ~StoringFailed
    /\ Len(store) = 2
    /\ store[2] = ExpectedDoc

\* C3: if the AI gateway call fails, send_message fails with that same error, no
\* document is inserted and no storage call is made
C3_GatewayFailureLeavesStore ==
    GatewayFailed =>
        /\ ~last.res.service.ok
        /\ last.res.service.error = GatewayError
        /\ store = last.pre.store
        /\ last.res.service.calls = 0
        /\ last.res.service.clients = 0
        /\ last.pre.chat_service # "none" =>
              /\ client = last.pre.client
              /\ database = last.pre.database
              /\ made = last.pre.made
              /\ conversations_collection = last.pre.coll

\* a POST /chat whose gateway failed while the adapter was disconnected and the store
\* held a document
C3_Witness ==
    /\ GatewayFailed
    /\ last.pre.chat_service # "none"
    /\ last.pre.database = None
    /\ Len(store) >= 1

\* the connection of the operation at hand failed: no handle was cached and the probe failed
ConnectionFailed == last.pre.database = None /\ ~last.env.pingOk

\* the stored exchanges of conversation cid, in insertion order
ExchangesOf(docs, cid) == SelectSeq(docs, LAMBDA d : d.conversation_id = cid)

\* the documents of docs and the pairs of messages agree, pair by pair, under some
\* one-to-one choice of k of the documents
PairedWith(messages, docs, k) ==
    \E p \in [1..k -> DOMAIN docs] :
        /\ \A i, j \in 1..k : i # j => p[i] # p[j]
        /\ \A i \in 1..k :
              /\ messages[2 * i - 1] = [ role |-> "user", content |-> docs[p[i]].user_message,
                                         timestamp |-> docs[p[i]].timestamp ]
              /\ messages[2 * i] = [ role |-> "assistant",
                                     content |-> docs[p[i]].assistant_message,
                                     timestamp |-> docs[p[i]].timestamp ]
        \* the documents left out are not older than the ones returned
        /\ \A i \in 1..k, j \in DOMAIN docs \ { p[n] : n \in 1..k } :
              docs[p[i]].timestamp <= docs[j].timestamp

\* C4: for every set of exchanges stored for a conversation id, also with an empty
\* assistant_message, get_history returns them (up to limit) in non-decreasing
\* timestamp order, each as a user message followed by an assistant message, and it
\* returns an empty history when the id has none
C4_HistoryOrderedAndPaired ==
    (Called("get_history") /\ ~ConnectionFailed /\ last.env.findOk) =>
        LET docs == ExchangesOf(last.pre.store, last.conversation_id)
            k == Min(last.limit, Len(docs))
        IN /\ last.res.service.ok
           /\ Len(last.res.service.value.messages) = 2 * k
           /\ PairedWith(last.res.service.value.messages, docs, k)
           /\ \A i, j \in 1..(2 * k) :
                 i < j => last.res.service.value.messages[i].timestamp
                            <= last.res.service.value.messages[j].timestamp

\* C5: after N exchanges were appended for conversation id X (N within the limit),
\* get_history(X) yields 2N messages and message_count is 2N
C5_RoundTrip ==
    ( /\ Called("get_history")
      /\ ~ConnectionFailed
      /\ last.env.findOk
      /\ Len(ExchangesOf(last.pre.store, last.conversation_id)) <= last.limit ) =>
        /\ last.res.service.ok
        /\ Len(last.res.service.value.messages)
             = 2 * Len(ExchangesOf(last.pre.store, last.conversation_id))
        /\ last.res.service.value.message_count
             = 2 * Len(ExchangesOf(last.pre.store, last.conversation_id))

\* the listing at hand reached the aggregation and no storage call of it failed
Listed ==
    /\ Called("list_conversations")
    /\ ~ConnectionFailed
    /\ last.env.countOk
    /\ last.env.aggOk

\* summary s is the reference summary of its conversation in docs: first and last
\* user message by chronological order, number of exchanges, earliest created_at,
\* latest timestamp
ReferenceSummary(s, docs) ==
    LET g == ExchangesOf(docs, s.conversation_id)
    IN /\ Len(g) >= 1
       /\ s.message_count = Len(g)
       /\ s.created_at = SeqMin([ i \in DOMAIN g |-> g[i].created_at ])
       /\ s.updated_at = SeqMax([ i \in DOMAIN g |-> g[i].timestamp ])
       /\ \E i \in DOMAIN g :
             /\ s.first_message = g[i].user_message
             /\ \A j \in DOMAIN g : g[i].timestamp <= g[j].timestamp
       /\ \E i \in DOMAIN g :
             /\ s.last_message = g[i].user_message
             /\ \A j \in DOMAIN g : g[i].timestamp >= g[j].timestamp

\* the conversation ids of docs
IdsOf(docs) == { docs[i].conversation_id : i \in DOMAIN docs }

\* C6: on a non-empty store, list_summaries(limit) is the reference computation: one
\* reference summary per conversation, ordered by updated_at descending, the first
\* limit of them
C6_SummariesMatchReference ==
    (Listed /\ last.pre.store # << >>) =>
        LET r == last.res.service.value
            ids == IdsOf(last.pre.store)
        IN /\ last.res.body = r
           /\ Len(r) = Min(last.limit, Cardinality(ids))
           /\ \A i \in DOMAIN r : ReferenceSummary(r[i], last.pre.store)
           /\ \A i, j \in DOMAIN r : i < j =>
                 /\ r[i].conversation_id # r[j].conversation_id
                 /\ r[i].updated_at >= r[j].updated_at
           /\ \A i \in DOMAIN r, c \in ids \ { r[n].conversation_id : n \in DOMAIN r } :
                 r[i].updated_at >= SeqMax([ n \in DOMAIN ExchangesOf(last.pre.store, c) |->
                                              ExchangesOf(last.pre.store, c)[n].timestamp ])

\* a listing of two conversations cut to the one updated last, which was stored second
C6_Witness ==
    /\ Listed
    /\ Len(last.pre.store) = 2
    /\ Cardinality(IdsOf(last.pre.store)) = 2
    /\ last.pre.store[1].timestamp < last.pre.store[2].timestamp
    /\ last.limit = 1
    /\ Len(last.res.service.value) = 1
    /\ last.res.service.value[1].conversation_id = last.pre.store[2].conversation_id

\* C7: list_summaries never raises: with the store unreachable, empty, or a storage
\* call failing, it returns the empty list, and GET /chat/conversations answers
\* success with an empty list
C7_ListingNeverRaises ==
    Op("list_conversations") =>
        /\ last.res.status = 200
        /\ last.res.called => last.res.service.ok
        /\ ( \/ ~last.res.called
             \/ ConnectionFailed
             \/ ~last.env.countOk
             \/ ~last.env.aggOk
             \/ last.pre.store = << >> ) =>
               /\ last.res.body = << >>
               /\ last.res.called => last.res.service.value = << >>

\* a listing over a non-empty store whose reconnect failed
C7_Witness ==
    /\ Called("list_conversations")
    /\ ConnectionFailed
    /\ last.pre.store # << >>
    /\ last.res.body = << >>

\* the storage calls of the DELETE at hand failed: the reconnect or the delete_many
DeleteFailed == ConnectionFailed \/ ~last.env.delOk

\* C8: delete_conversation(X) removes every exchange of X and returns true exactly
\* when one existed, false without raising when none did; right afterwards
\* get_history(X) is empty
C8_DeleteRemovesAll ==
    (Called("delete_conversation") /\ ~DeleteFailed) =>
        /\ last.res.service.ok
        /\ last.res.service.value = (ExchangesOf(last.pre.store, last.conversation_id) # << >>)
        /\ store = SelectSeq(last.pre.store,
                             LAMBDA d : d.conversation_id # last.conversation_id)
        /\ \A limit \in Limits :
              \A order \in SortedByTimestamp(store, Matching(store, last.conversation_id)) :
                 LET h == get_conversation_history(World, last.conversation_id, limit,
                                                   TRUE, TRUE, order)
                 IN h.ok /\ h.value.messages = << >> /\ h.value.message_count = 0

\* a delete of a conversation of two exchanges
C8_Witness ==
    /\ Called("delete_conversation")
    /\ ~DeleteFailed
    /\ Len(ExchangesOf(last.pre.store, last.conversation_id)) = 2
    /\ last.res.service.value
    /\ store = << >>

\* C9: a storage failure during delete_conversation reaches the caller and is never
\* reported as nothing deleted: DELETE answers 500 on a storage failure, 404 exactly
\* when the delete succeeded and removed nothing, success when it removed something
C9_DeleteFailureIsVisible ==
    Op("delete_conversation") =>
        /\ last.res.status \in { 200, 404, 500 }
        /\ DeleteFailed =>
              /\ last.res.status = 500
              /\ last.res.called => ~last.res.service.ok
        /\ ~last.res.called => last.res.status = 500
        /\ last.res.status = 404 <=>
              /\ last.res.called
              /\ ~DeleteFailed
              /\ ExchangesOf(last.pre.store, last.conversation_id) = << >>
        /\ last.res.status = 200 <=>
              /\ last.res.called
              /\ ~DeleteFailed
              /\ ExchangesOf(last.pre.store, last.conversation_id) # << >>

\* a DELETE of a stored conversation whose delete_many failed
C9_Witness ==
    /\ Called("delete_conversation")
    /\ ~last.env.delOk
    /\ ~ConnectionFailed
    /\ ExchangesOf(last.pre.store, last.conversation_id) # << >>
    /\ last.res.status = 500

\* C10: connect() with a cached database handle creates no client, makes no probe,
\* leaves client and database as they are and returns the cached handle
C10_ConnectIdempotent ==
    (Op("connect") /\ last.pre.database # None) =>
        /\ last.res.ok
        /\ last.res.ret = last.pre.database
        /\ last.res.probes = 0
        /\ last.res.clients = 0
        /\ client = last.pre.client
        /\ database = last.pre.database
        /\ made = last.pre.made

\* a connect() on a connected adapter
C10_Witness ==
    /\ Op("connect")
    /\ last.pre.database # None
    /\ last.pre.client # None

\* the callers whose connect() returned a handle
Returned == { p \in Callers : calls[p].pc = "returned" }

\* the clients constructed so far that neither the adapter nor a pending probe holds
Unreferenced ==
    { c \in 1..made : c # client /\ \A p \in Callers : ~(calls[p].pc = "probing" /\ calls[p].own = c) }

\* every caller got the handle the adapter caches, on the client it caches
SameHandle ==
    /\ \A p, q \in Returned : calls[p].ret = calls[q].ret
    /\ \A p \in Returned : calls[p].ret = database /\ database = client

\* C11: when several connect() calls are in flight together at cold start, all of them
\* return the same database handle, the adapter caches that handle and its client, and
\* no second client is constructed or left unreferenced
C11_ConcurrentConnectOneClient ==
    /\ SameHandle
    /\ made <= 1
    /\ Unreferenced = { }

\* what does hold: the callers agree on the handle, whatever the interleaving
C11_SameHandle == SameHandle

\* two callers were suspended at the probe together and both returned
C11_Witness ==
    \E p, q \in Returned : p # q /\ calls[p].own # None /\ calls[q].own # None

\* the operation at hand found no database handle
Unconnected == last # Idle /\ last.pre.database = None

\* the handle is absent exactly while no connect() has succeeded since construction
\* or since the last disconnect(): an operation that leaves a handle where there was
\* none ran a probe that succeeded, and only disconnect() takes the handle away
HandleTracksConnect ==
    /\ Unconnected /\ database # None => last.env.pingOk
    /\ last # Idle /\ last.pre.database # None /\ database = None => Op("disconnect")

\* C12: while no connect() has succeeded since construction or since the last
\* disconnect(), get_database() returns None without raising, health_check() returns
\* False without raising and get_collection fails with "Database not connected";
\* disconnect() leaves the client and the database handle absent
C12_UnconnectedAccessors ==
    /\ HandleTracksConnect
    /\ Unconnected /\ Op("get_database") => last.res.ok /\ last.res.value = None
    /\ Unconnected /\ Op("health_check") => last.res.ok /\ last.res.value = FALSE
    /\ Unconnected /\ Op("get_collection") =>
          ~last.res.ok /\ last.res.error = "Database not connected"
    /\ Op("disconnect") => client = None /\ database = None

\* health_check() called after a successful connect() and a disconnect()
C12_Witness ==
    /\ Op("health_check")
    /\ last.pre.database = None
    /\ last.pre.client = None
    /\ last.pre.made > 0
    /\ last.env.pingOk

\* the operation at hand found the DatabaseService constructed and unconnected, as a
\* startup whose connection failed leaves it
Degraded == last # Idle /\ last.pre.db_service /\ last.pre.database = None

\* C13: startup completes also when the storage connection fails; afterwards
\* get_database_service returns the unconnected service without raising, GET /health
\* reports unhealthy, and each write makes its own reconnect attempt: it stores its
\* exchange when the attempt and the insert succeed, and otherwise fails alone, leaving
\* the store and the adapter as a later request expects them
C13_StartupFailureDegrades ==
    /\ Op("lifespan") => last.res.ok /\ _db_service /\ (~last.env.pingOk => database = None)
    /\ Degraded /\ Op("get_database_service") =>
          last.res.ok /\ last.res.clients = 0 /\ database = None
    /\ Degraded /\ Op("health") => last.res.status = 503 /\ database = None
    /\ Degraded /\ GatewayReturned =>
          /\ last.res.service.clients = 1
          /\ last.res.service.stored = (last.env.pingOk /\ last.env.insOk)
          /\ last.res.service.stored =>
                Len(store) = Len(last.pre.store) + 1 /\ database # None
          /\ ~last.res.service.stored => store = last.pre.store
          /\ ~last.env.pingOk => database = None /\ _db_service
          /\ last.res.status = 200

\* after a connection that failed, a write reconnected and stored its exchange
C13_Witness ==
    /\ Degraded
    /\ GatewayReturned
    /\ last.pre.client # None
    /\ last.res.service.stored
    /\ made = 2

\* the collection handle _store_message inserts through: the one _get_collection
\* returns, which is the one the ChatService caches
InsertedThrough == conversations_collection

\* the append of the POST /chat at hand ran (the gateway returned) and found no database
\* handle on the adapter: the request found none, and get_chat_service, finding the
\* DatabaseService constructed, did not connect
AppendUnconnected == GatewayReturned /\ last.pre.db_service /\ last.pre.database = None

\* what C14 says of an append that finds no handle
AppendReconnects ==
    /\ last.res.service.clients = 1
    /\ last.env.pingOk /\ last.env.insOk =>
          /\ last.res.service.stored
          /\ store = Append(last.pre.store, ExpectedDoc)
          /\ database = client
          /\ InsertedThrough = database
    /\ ~last.env.pingOk =>
          /\ ~last.res.service.stored
          /\ store = last.pre.store

\* C14: an append that finds no database handle (never connected, or disconnected after
\* earlier successful operations) reconnects first; if the reconnect succeeds the
\* exchange is inserted through the newly established handle, and if it fails the
\* append fails and inserts nothing
C14_AppendReconnects == AppendUnconnected => AppendReconnects

\* the same for the adapter that was never connected before: here it holds
C14_AppendReconnectsFirstTime ==
    AppendUnconnected /\ last.pre.coll = None => AppendReconnects

\* the operations that call get_chat_service()
ChatRoutes == { "post_chat", "get_history", "list_conversations", "delete_conversation" }

\* the operation at hand called get_chat_service() while no ChatService was cached
Constructing == last # Idle /\ last.op \in ChatRoutes /\ last.pre.chat_service = "none"

\* the configured provider and the other one, as their globals stand
Primary == IF AI_PROVIDER = "openai" THEN _openai_service ELSE _gemini_service

Secondary == IF AI_PROVIDER = "openai" THEN _gemini_service ELSE _openai_service

SecondaryName == IF AI_PROVIDER = "openai" THEN "gemini" ELSE "openai"

\* what C15 says of a construction of the chat service
ProviderFallback ==
    /\ last.res.called =>
          /\ _chat_service = IF Primary = "init" THEN AI_PROVIDER ELSE SecondaryName
          /\ ai_service(World) = "init"
    /\ ~last.res.called =>
          /\ _chat_service = "none"
          /\ database = None \/ (Primary = "uninit" /\ Secondary = "uninit")

\* C15: whenever the chat service is constructed, also after a provider failed to
\* initialize earlier in the process, the secondary provider is used if the primary fails
\* to initialize, construction fails and caches nothing if both fail, and the provider
\* attached to a constructed chat service is an initialized one
C15_ProviderFallback ==
    /\ Constructing => ProviderFallback
    /\ _chat_service # "none" /\ ~Op("post_chat") => ai_service(World) = "init"

\* the same for a construction that finds no provider global set: here it holds
C15_ProviderFallbackFirstTime ==
    Constructing /\ last.pre.gemini = "none" /\ last.pre.openai = "none" => ProviderFallback

\* ------------------------------------------------------------ properties of the gap analysis
\* the exchanges stored for a conversation when the operation at hand began
DocsOf(cid) == SelectSeq(last.pre.store, LAMBDA d : d.conversation_id = cid)

\* the analysis GET /gap-analysis/conversation/{id} answered with
Analysis == last.res.body

\* analyze_conversation ran and read the history of its conversation
HistoryRead == Called("analyze_conversation") /\ Analysis.status # "error"

\* the gap types an analysis lists
TypesOf(a) == [ i \in DOMAIN a.gaps |-> a.gaps[i].type ]

Lists(a, type) == \E i \in DOMAIN a.gaps : a.gaps[i].type = type

\* the rules in their order, with their penalties, severities and suggestions
RuleOrder ==
    << "missing_context", "no_followup", "short_responses", "missing_details",
       "no_action_items", "unanswered_questions" >>

PenaltyOf(type) ==
    CASE type = "missing_context" -> 20
      [] type = "no_followup" -> 10
      [] type = "short_responses" -> 15
      [] type = "missing_details" -> 15
      [] type = "no_action_items" -> 10
      [] type = "unanswered_questions" -> 25

SeverityOf(type) ==
    CASE type \in { "missing_context", "missing_details" } -> "medium"
      [] type \in { "no_followup", "short_responses", "no_action_items" } -> "low"
      [] type = "unanswered_questions" -> "high"

SuggestionOf(type) ==
    CASE type = "missing_context" ->
           "Provide more background information or ask follow-up questions"
      [] type = "no_followup" ->
           "Consider asking follow-up questions to deepen the conversation"
      [] type = "short_responses" -> "Ask for more detailed explanations or examples"
      [] type = "missing_details" ->
           "Ask specific questions using 'how', 'why', 'what', or request examples"
      [] type = "no_action_items" -> "Ask about next steps or actionable recommendations"
      [] type = "unanswered_questions" ->
           "Review responses to ensure all questions are addressed"

\* the penalties of the findings an analysis lists
Penalties(a) == Sum([ i \in DOMAIN a.gaps |-> PenaltyOf(a.gaps[i].type) ])

\* a user text holds one of the keywords, in any case
Mentions(docs, keywords) ==
    \E i \in DOMAIN docs : \E k \in keywords : Contains(lower(docs[i].user_message), k)

\* the trigger of each rule, on the exchanges the history was built from: every
\* exchange gives one user message and one assistant message
Triggered(type, docs) ==
    CASE type = "missing_context" -> Len(docs) < 2
      [] type = "no_followup" -> Len(docs) = 1
      [] type = "short_responses" ->
           2 * Cardinality({ i \in DOMAIN docs : Len(docs[i].assistant_message) < 50 }) > Len(docs)
      [] type = "missing_details" -> ~Mentions(docs, detail_keywords) /\ Len(docs) > 2
      [] type = "no_action_items" -> ~Mentions(docs, action_keywords) /\ Len(docs) > 3
      [] type = "unanswered_questions" ->
           Sum([ i \in DOMAIN docs |-> count(docs[i].user_message, "?") ]) > Len(docs)

\* the history analyze_conversation found has exactly one user message and one
\* assistant message
OneExchange == HistoryRead /\ Len(DocsOf(last.conversation_id)) = 1

\* C16 as stated: a history of exactly one user message and one assistant message is
\* reported with missing_context and no_followup, and its completeness score is 70
C16_SingleExchangeScores70 ==
    OneExchange =>
        /\ Lists(Analysis, "missing_context")
        /\ Lists(Analysis, "no_followup")
        /\ Analysis.completeness_score = 70

\* C16 amended: such a history is reported with missing_context and no_followup; its
\* score is 70 less 15 if the assistant message is shorter than 50 characters and less
\* 25 if the user message holds more than one question mark
C16_SingleExchangeScore ==
    OneExchange =>
        /\ Lists(Analysis, "missing_context")
        /\ Lists(Analysis, "no_followup")
        /\ Analysis.completeness_score =
              70 - (IF Len(DocsOf(last.conversation_id)[1].assistant_message) < 50
                    THEN 15 ELSE 0)
                 - (IF count(DocsOf(last.conversation_id)[1].user_message, "?") > 1
                    THEN 25 ELSE 0)

\* one exchange with a long response and no question: the score is 70
C16_Witness ==
    /\ OneExchange
    /\ TypesOf(Analysis) = << "missing_context", "no_followup" >>
    /\ Analysis.completeness_score = 70

\* the types of an analysis come in rule order, none twice
InRuleOrder(a) ==
    \E pos \in [DOMAIN a.gaps -> DOMAIN RuleOrder] :
       /\ \A i \in DOMAIN a.gaps : RuleOrder[pos[i]] = a.gaps[i].type
       /\ \A i, j \in DOMAIN a.gaps : i < j => pos[i] < pos[j]

\* what C17 says of the analysis a of a history built from docs
RulesApplied(a, docs) ==
    /\ \A k \in DOMAIN RuleOrder : Lists(a, RuleOrder[k]) <=> Triggered(RuleOrder[k], docs)
    /\ InRuleOrder(a)
    /\ \A i \in DOMAIN a.gaps : a.gaps[i].severity = SeverityOf(a.gaps[i].type)
    /\ a.completeness_score = (IF Penalties(a) < 100 THEN 100 - Penalties(a) ELSE 0)
    /\ a.metrics.completeness_score = a.completeness_score
    /\ a.gap_count = Len(a.gaps)
    /\ \A sev \in { "high", "medium", "low" } :
          a.severity_breakdown[sev] =
              Cardinality({ i \in DOMAIN a.gaps : SeverityOf(a.gaps[i].type) = sev })

\* C17: for every non-empty history the gap list holds a rule's finding exactly when
\* the rule's trigger holds, the completeness score is max(0, 100 - the penalties of
\* the findings listed), and gap_count and the severity breakdown count those findings;
\* for the analysis of one conversation and for each analysis of analyze_all
C17_RulesIndependent ==
    /\ HistoryRead /\ Analysis.status = "analyzed" =>
          RulesApplied(Analysis, DocsOf(last.conversation_id))
    /\ Called("analyze_all") /\ last.res.body.status = "analyzed" =>
          \A i \in DOMAIN last.res.body.conversation_analyses :
             last.res.body.conversation_analyses[i].status = "analyzed" =>
                RulesApplied(last.res.body.conversation_analyses[i],
                             DocsOf(last.res.body.conversation_analyses[i].conversation_id))

\* four questions-laden exchanges with short answers: unanswered_questions triggers
\* along with short_responses and no_action_items
C17_Witness ==
    /\ HistoryRead
    /\ Len(DocsOf(last.conversation_id)) = 4
    /\ TypesOf(Analysis) = << "short_responses", "no_action_items", "unanswered_questions" >>
    /\ Analysis.completeness_score = 50

Overview == last.res.body

\* the conversation ids stored when the operation at hand began
StoredIds == { last.pre.store[i].conversation_id : i \in DOMAIN last.pre.store }

\* the listing of the analyze_all at hand failed: get_conversation_summaries answered
\* the failed reconnect, count or aggregation with the empty list
ListingFailed ==
    \/ last.pre.database = None /\ ~last.env.pingOk
    \/ ~last.env.countOk
    \/ ~last.env.aggOk

\* what C19 says of an analyze_all that found conversations
AllAnalyzed ==
    /\ Overview.status = "analyzed"
    /\ Overview.total_conversations = Cardinality(StoredIds)
    /\ Overview.analyzed_conversations = Overview.total_conversations
    /\ { Overview.conversation_analyses[i].conversation_id :
            i \in DOMAIN Overview.conversation_analyses } = StoredIds
    /\ Overview.total_gaps_found =
          Sum([ i \in DOMAIN Overview.conversation_analyses |->
                  Len(Overview.conversation_analyses[i].gaps) ])
    /\ Len(Overview.common_gaps) <= 5
    /\ \A i, j \in DOMAIN Overview.common_gaps :
          /\ i < j => Overview.common_gaps[i].frequency >= Overview.common_gaps[j].frequency
          /\ i # j => Overview.common_gaps[i].type # Overview.common_gaps[j].type
    /\ \A i \in DOMAIN Overview.common_gaps :
          Overview.common_gaps[i].frequency =
              Cardinality({ k \in DOMAIN Overview.conversation_analyses :
                              Lists(Overview.conversation_analyses[k],
                                    Overview.common_gaps[i].type) })

NoneFound == Overview.status = "no_conversations" /\ Overview.total_conversations = 0

\* C19 as stated: analyze_all_conversations returns "no_conversations" with
\* total_conversations 0 exactly when no conversation is stored; otherwise it analyzes
\* every listed summary, sums the gap counts, and lists at most 5 gap types in
\* non-increasing frequency
C19_NoConversationsIffNoneStored ==
    Called("analyze_all") =>
        /\ NoneFound <=> StoredIds = { }
        /\ ~NoneFound => AllAnalyzed

\* C19 amended: "no_conversations" is returned exactly when no conversation is stored
\* or the listing failed; otherwise as stated
C19_NoConversationsIffNoneListed ==
    Called("analyze_all") =>
        /\ NoneFound <=> (StoredIds = { } \/ ListingFailed)
        /\ ~NoneFound => AllAnalyzed

\* two conversations whose analyses list all six gap types: five are reported
C19_Witness ==
    /\ Called("analyze_all")
    /\ Overview.status = "analyzed"
    /\ Overview.total_conversations = 2
    /\ Cardinality({ t \in DOMAIN RuleOrder :
                       \E k \in DOMAIN Overview.conversation_analyses :
                          Lists(Overview.conversation_analyses[k], RuleOrder[t]) }) = 6
    /\ Len(Overview.common_gaps) = 5

\* C20: analyze_conversation and analyze_all_conversations never write: the stored
\* exchange documents are the same before and after either call, whatever it returns
C20_AnalysisNeverWrites ==
    Op("analyze_conversation") \/ Op("analyze_all") => store = last.pre.store

\* an analysis that could not read the history of a stored conversation
C20_Witness ==
    /\ Called("analyze_conversation")
    /\ Analysis.status = "error"
    /\ DocsOf(last.conversation_id) # << >>
    /\ last.pre.database = None

\* ------------------------------------------------------------ properties of the requests
\* the id is non-empty, at most 100 characters long and made of ASCII letters, digits,
\* "_" and "-" only
WellFormed(id) ==
    /\ Len(id) >= 1
    /\ Len(id) <= 100
    /\ \A i \in DOMAIN id :
          \/ \E k \in DOMAIN Uppercase : id[i] = Uppercase[k] \/ id[i] = Lowercase[k]
          \/ id[i] \in { "0", "1", "2", "3", "4", "5", "6", "7", "8", "9", "_", "-" }

\* the id validate_conversation_id was called on, and whether it accepted it
Validated == Op("validate_conversation_id")

Accepted == last.res.value.valid

\* C21: validate_conversation_id accepts an id exactly when it is non-empty, at most
\* 100 characters long and consists only of ASCII letters, digits, "_" and "-";
\* "abc 123" is rejected, "abc-123_ok" is accepted, and every id that
\* generate_conversation_id produces is accepted
C21_AcceptsExactlyWellFormed ==
    /\ Validated => (Accepted <=> WellFormed(last.conversation_id))
    /\ Validated /\ last.conversation_id = << "a", "b", "c", " ", "1", "2", "3" >> => ~Accepted
    /\ Validated /\ last.conversation_id = << "a", "b", "c", "-", "1", "2", "3", "_", "o", "k" >>
          => Accepted
    /\ Op("generate_conversation_id") => validate_conversation_id(last.res.value).valid

\* the same for ids that do not end in a newline: here it holds
C21_AcceptsWellFormedLine ==
    /\ Validated /\ last.conversation_id # << >>
          /\ last.conversation_id[Len(last.conversation_id)] # "\n"
          => (Accepted <=> WellFormed(last.conversation_id))
    /\ Validated /\ last.conversation_id = << >> => ~Accepted
    /\ Validated /\ last.conversation_id = << "a", "b", "c", " ", "1", "2", "3" >> => ~Accepted
    /\ Validated /\ last.conversation_id = << "a", "b", "c", "-", "1", "2", "3", "_", "o", "k" >>
          => Accepted
    /\ Op("generate_conversation_id") =>
          /\ validate_conversation_id(last.res.value).valid
          /\ WellFormed(last.res.value)

\* the POST /chat request at hand carries an empty message, a message of more than 5000
\* characters or a malformed conversation id
Posted == Op("send_message_route")

EmptyMessage == last.message = << >>

Oversized == Len(last.message) > 5000

Malformed == last.conversation_id # << >> /\ ~WellFormed(last.conversation_id)

\* the request at hand went no further than its validation: the AI gateway was not
\* called and the store is as it was
Refused == ~last.res.called /\ store = last.pre.store

\* C22: POST /chat answers 400 for an empty message, for a message longer than 5000
\* characters and for a malformed conversation id, and in each of those cases the AI
\* gateway is not called and nothing is stored
C22_InvalidRequestAnswered400 ==
    Posted /\ (EmptyMessage \/ Oversized \/ Malformed) => last.res.status = 400 /\ Refused

\* what holds instead: an empty or oversized message is answered 422, and a malformed
\* conversation id that validate_conversation_id rejects is answered 400; none of them
\* reaches the AI gateway or the store
C22_InvalidRequestRefused ==
    /\ Posted /\ (EmptyMessage \/ Oversized) => last.res.status = 422 /\ Refused
    /\ Posted /\ ~(EmptyMessage \/ Oversized) /\ Malformed
          /\ last.conversation_id[Len(last.conversation_id)] # "\n"
          => last.res.status = 400 /\ Refused

\* send_message of the POST /chat request at hand failed, with the error text Failure
SendFailed == Posted /\ last.res.called /\ ~last.res.service.ok

Failure == last.res.service.error

\* word occurs in text; AnyCase: in any mix of upper and lower case
Occurs(text, word) ==
    \E i \in DOMAIN text :
       i + Len(word) - 1 <= Len(text) /\ SubSeq(text, i, i + Len(word) - 1) = word

AnyCase(text, word) == Occurs(lower(text), word)

Quota == << "q", "u", "o", "t", "a" >>

RateLimit == << "r", "a", "t", "e", " ", "l", "i", "m", "i", "t" >>

\* the API call of the attached provider was made and raised ApiError
ApiFailed == SendFailed /\ ai_service(World) = "init" /\ ~last.env.ai.ok

ApiError == last.env.ai.error

\* the API error is one the attached provider's generate_response raises as a quota or
\* rate-limit failure
QuotaFailure ==
    \/ Occurs(ApiError, << "4", "2", "9" >>) \/ AnyCase(ApiError, Quota)
    \/ _chat_service = "openai" /\ AnyCase(ApiError, RateLimit)
    \/ _chat_service = "gemini" /\
          \/ Occurs(ApiError, << "R", "e", "s", "o", "u", "r", "c", "e",
                                 "E", "x", "h", "a", "u", "s", "t", "e", "d" >>)
          \/ AnyCase(ApiError, RateLimit)
          \/ AnyCase(ApiError, << "r", "e", "t", "r", "y" >>)

\* C23: when send_message fails, POST /chat answers 429 if the error text contains
\* "quota" or "rate limit" (in any case) or "429", and 500 otherwise; every quota or
\* rate-limit failure raised by either provider's generate_response is answered 429
C23_QuotaFailuresAnswered429 ==
    /\ SendFailed =>
          last.res.status =
             IF AnyCase(Failure, Quota) \/ AnyCase(Failure, RateLimit)
                   \/ Occurs(Failure, << "4", "2", "9" >>)
             THEN 429 ELSE 500
    /\ ApiFailed /\ QuotaFailure => last.res.status = 429
    /\ ApiFailed /\ ~QuotaFailure => last.res.status = 500

\* Gemini's rate-limit failure naming its delay is answered 429
C23_Witness ==
    /\ ApiFailed
    /\ _chat_service = "gemini"
    /\ ApiError = << "r", "e", "t", "r", "y", " ", "i", "n", " ", "1", ".", "5", "s" >>
    /\ Failure =
        << "R", "a", "t", "e", " ", "l", "i", "m", "i", "t", " ", "r", "e", "a", "c", "h",
           "e", "d", ".", " ", "P", "l", "e", "a", "s", "e", " ", "w", "a", "i", "t", " ",
           "1", ".", "5", " ", "s", "e", "c", "o", "n", "d", "s", " ", "b", "e", "f", "o",
           "r", "e", " ", "t", "r", "y", "i", "n", "g", " ", "a", "g", "a", "i", "n", "." >>
    /\ last.res.status = 429

\* ------------------------------------------------------------ properties of the order
\* two exchanges of conversation cid carry the same timestamp
Tied(docs, cid) ==
    \E i, j \in DOMAIN docs :
       /\ i < j
       /\ docs[i].conversation_id = cid
       /\ docs[j].conversation_id = cid
       /\ docs[i].timestamp = docs[j].timestamp

\* the history at hand was read and returned
HistoryReturned == Called("get_history") /\ last.res.service.ok

\* the history at hand is the conversation's exchanges in insertion order, up to limit.
\* The clock does not run backwards between requests, so here insertion order is also
\* non-decreasing in timestamp
InInsertionOrder ==
    last.res.service.value.messages
       = ExpandAll(Take(ExchangesOf(last.pre.store, last.conversation_id), last.limit))

\* the first and the last message of summary s are those of the exchanges of its
\* conversation inserted first and last
EndsInInsertionOrder(s, docs) ==
    LET g == ExchangesOf(docs, s.conversation_id)
    IN /\ s.first_message = g[1].user_message
       /\ s.last_message = g[Len(g)].user_message

\* C24: when two exchanges of a conversation carry an identical timestamp, get_history
\* and the first and last message of list_summaries order them consistently with
\* insertion order, so the same stored data always yields the same history and summary
C24_TiesInInsertionOrder ==
    /\ HistoryReturned => InInsertionOrder
    /\ Listed /\ last.pre.store # << >> =>
          \A i \in DOMAIN last.res.service.value :
             EndsInInsertionOrder(last.res.service.value[i], last.pre.store)

\* the same for conversations without two exchanges of one timestamp: here it holds
C24_InsertionOrderWithoutTies ==
    /\ HistoryReturned /\ ~Tied(last.pre.store, last.conversation_id) => InInsertionOrder
    /\ Listed /\ last.pre.store # << >> =>
          \A i \in DOMAIN last.res.service.value :
             ~Tied(last.pre.store, last.res.service.value[i].conversation_id) =>
                EndsInInsertionOrder(last.res.service.value[i], last.pre.store)

\* the exchanges of every conversation are stored in non-decreasing order of timestamp
NonDecreasing(docs) ==
    \A i, j \in DOMAIN docs :
       i < j /\ docs[i].conversation_id = docs[j].conversation_id
          => docs[i].timestamp <= docs[j].timestamp

\* C25: within one conversation, the timestamps of stored exchanges are non-decreasing
\* in insertion order, also when several send_message calls for the same conversation
\* id run concurrently
C25_TimestampsNonDecreasing == NonDecreasing(store)

C26_AtMostLimitExchanges ==
    Op("get_history") /\ last.res.status = 200 =>
        /\ Len(last.res.body.messages) <= 2 * last.limit
        /\ Len(last.res.body.messages)
             = 2 * Min(last.limit, Len(ExchangesOf(last.pre.store, last.conversation_id)))
        /\ last.res.body.message_count = Len(last.res.body.messages)

\* C27: whenever the adapter holds a database handle, the collection handle cached in
\* the ChatService (if any) was obtained from that handle; after disconnect() and a
\* reconnect, storage operations do not use a collection of the closed client
C27_CollectionOfCurrentHandle ==
    database # None /\ conversations_collection # None => conversations_collection = database

\* the same while the adapter holds the handle of the first client it constructed:
\* here it holds
C27_CollectionOfFirstHandle ==
    database = 1 /\ conversations_collection # None => conversations_collection = database

\* ------------------------------------------------------------ properties of the getters
\* the callers that constructed a DatabaseService
DatabaseBuilders == { p \in Callers : calls[p].db }

\* the callers get_chat_service() has returned to
Served == { p \in Callers : calls[p].fn = "get_chat_service" /\ calls[p].pc = "returned" }

\* C28 as stated: under any interleaving of concurrent get_chat_service and
\* get_database_service calls at cold start, at most one DatabaseService and at most one
\* ChatService are constructed, and every caller receives the same ChatService
C28_OneOfEach ==
    /\ Cardinality(DatabaseBuilders) <= 1
    /\ Cardinality(ChatServices) <= 1
    /\ \A p \in Served, q \in Served : calls[p].ret = calls[q].ret

\* the part on the DatabaseService alone: here it holds
C28_OneDatabaseService == Cardinality(DatabaseBuilders) <= 1

\* a second ChatService is constructed only while the constructor of the
\* DatabaseService was suspended in get_chat_service(): here it holds
C28_SecondOnlyFromTheProbe ==
    Cardinality(ChatServices) > 1 =>
        \E p \in DatabaseBuilders : calls[p].fn = "get_chat_service" /\ calls[p].chat > 1

\* ------------------------------------------------------------ properties of the frame
\* the exchanges of docs that belong to other conversations than cid, in their order
OtherThan(docs, cid) == SelectSeq(docs, LAMBDA d : d.conversation_id # cid)

\* the DELETE at hand failed: delete_conversation, or the getter before it, raised
DeleteRaised == Op("delete_conversation") /\ last.res.status = 500

\* C29: delete_conversation(X) leaves every exchange whose conversation_id differs from
\* X unchanged, and a failed delete_conversation leaves the whole store unchanged
C29_DeleteLeavesOthers ==
    Op("delete_conversation") =>
        /\ OtherThan(store, last.conversation_id)
              = OtherThan(last.pre.store, last.conversation_id)
        /\ DeleteRaised => store = last.pre.store

\* a delete that removed one conversation from a store of two
C29_Witness ==
    /\ Called("delete_conversation")
    /\ last.res.status = 200
    /\ OtherThan(last.pre.store, last.conversation_id) # << >>
    /\ Len(store) < Len(last.pre.store)
    /\ store = OtherThan(last.pre.store, last.conversation_id)

\* a delete on a non-empty store whose delete_many failed
C29_FailedOnStore ==
    /\ Called("delete_conversation")
    /\ ~last.env.delOk
    /\ ~ConnectionFailed
    /\ ExchangesOf(last.pre.store, last.conversation_id) # << >>

\* ------------------------------------------------------------ properties of the score
\* analyze_conversation read a history with messages and applied the six rules
Scored == HistoryRead /\ Analysis.status = "analyzed"

\* the scores the rules can leave
ScoreSteps == { 5 * k : k \in 6..20 }

\* C30: for every history reconstructed from stored exchanges (user and assistant
\* message counts equal), missing_context and missing_details never trigger together
\* and no_followup triggers only with missing_context; the total penalty never exceeds
\* 70, the completeness score is a multiple of 5 between 30 and 100, and the floor at
\* 0 is never reached
C30_ScoreBetween30And100 ==
    Scored =>
        /\ Analysis.metrics.user_messages = Analysis.metrics.ai_messages
        /\ ~(Lists(Analysis, "missing_context") /\ Lists(Analysis, "missing_details"))
        /\ Lists(Analysis, "no_followup") => Lists(Analysis, "missing_context")
        /\ Penalties(Analysis) <= 70
        /\ Analysis.completeness_score = 100 - Penalties(Analysis)
        /\ Analysis.completeness_score \in ScoreSteps
        /\ Analysis.completeness_score > 0

\* a single short exchange with two questions: the four rules that can trigger
\* together, and the lowest score
C30_Witness ==
    /\ Scored
    /\ Analysis.metrics.user_messages = 1
    /\ TypesOf(Analysis) = << "missing_context", "no_followup", "short_responses",
                              "unanswered_questions" >>
    /\ Penalties(Analysis) = 70
    /\ Analysis.completeness_score = 30

\* a conversation of four exchanges with the most its rules can take
C30_LongWitness ==
    /\ Scored
    /\ Analysis.metrics.user_messages = 4
    /\ Lists(Analysis, "missing_details")
    /\ Lists(Analysis, "no_action_items")
    /\ Analysis.completeness_score = 60

====
